---- MODULE Spec2Model ----
(***************************************************************************)
(* Model of the Bella Fruita conveyor feeder controller.                   *)
(*                                                                         *)
(* One polling tick (PollingThread.run) reads the two terminals, appends   *)
(* the samples to the input/output history, runs RuleEngine.evaluate over  *)
(* the rule list of setup_rules in registration order and leaves the       *)
(* result in machine memory and on the output coils.  The delayed          *)
(* MOTOR_2 stop that CompleteMoveC2toPalm starts with threading.Timer is   *)
(* a second thread and is a separate action.                               *)
(*                                                                         *)
(* Rules are called with the parameters their signatures in rules.py       *)
(* declare: condition(procon, mem) and action(controller, procon, mem),    *)
(* procon being the Procon facade of modbus/api.py and mem the             *)
(* MachineMemory of mem.py.                                                *)
(*                                                                         *)
(* Time is counted in ticks of a third of a second (TicksPerSecond).        *)
(* time.time() is the variable now; within one evaluate the clock only     *)
(* moves when a rule action calls time.sleep.                              *)
(***************************************************************************)
EXTENDS Integers, Sequences, FiniteSets, TLC

VARIABLES
    now,           \* time.time(), in ticks
    mem,           \* MachineMemory._state: key -> value, only the keys present
    coils,         \* output terminal coils LED_GREEN, MOTOR_2, MOTOR_3, LED_RED
    input_logs,    \* LogManager.input_logs (deque, maxlen = max_entries)
    output_logs,   \* LogManager.output_logs
    timers,        \* due times of the threading.Timer callbacks not yet run
    open,          \* transports: TRUE after connect(), FALSE after close()
    once,          \* LogManager._logged_once
    input_data,    \* input map read by the latest tick
    active_rules,  \* RuleEngine.active_rules
    new_events,    \* entries appended to LogManager.event_logs by the latest step
    writes,        \* coil writes issued by the latest step, in order
    rules,         \* RuleEngine.rules: the registered rules, in registration order
    enabled,       \* Rule.enabled of each registered rule
    trigger_count, \* Rule.trigger_count of each registered rule
    pulsed,        \* input labels that went true and false again between the
                   \* previous poll and the latest one, unseen by both
    probed,        \* what the probe rules were made to do in the latest tick
    shared,        \* the SystemState shared with the UI threads
    lock,          \* SystemState.lock: the thread holding it, or "free"
    pc,            \* where the polling thread and a reader thread are
    snapshot,      \* what the latest get_snapshot() returned
    api_call,      \* the latest call on the I/O layer, with what it returned
    terminal,      \* the MockModbusClient of the output terminal
    stop_event,    \* PollingThread._stop_event: TRUE once set
    sleep_time     \* what is left of the polling thread's wait between ticks

vars == <<now, mem, coils, input_logs, output_logs, timers, open, once,
          input_data, active_rules, new_events, writes,
          rules, enabled, trigger_count, pulsed, probed,
          shared, lock, pc, snapshot, api_call, terminal,
          stop_event, sleep_time>>

----------------------------------------------------------------------------
(* Bounds of the model *)

MaxTime == 8
MaxCommsTime == 20
MaxEntries == 4
MaxEngineTime == 5
MaxSnapshotTime == 7
MaxMoveTime == 105
MaxMovePolls == 9

(* The clock: ticks per second of time.time() *)

TicksPerSecond == 3

(* Program constants; durations in ticks *)

HOLD_SECONDS == 3
COMMS_TIMEOUT == 15
C3_DELAY == 90
MOTOR_STAGGER == 6
STOP_DELAY == 3
default_edge_window_ms == 500
DEFAULT_VERSION == 12345

NoTime == -1

----------------------------------------------------------------------------
(* io_mapping.MODBUS_MAP *)

InputLabels == {"S1", "S2", "CS1", "CS2", "CS3", "M1_Trip", "M2_Trip", "E_Stop",
                "Manual_Select", "Auto_Select", "Klaar_Geweeg_Btn", "CPS_1",
                "CPS_2", "Reset_Btn", "PALM_Run_Signal", "DHLM_Trip_Signal"}

OutputCoils == {"LED_GREEN", "MOTOR_2", "MOTOR_3", "LED_RED"}

Modes == {"READY", "MANUAL", "MOVING_C3_TO_C2", "MOVING_BOTH", "MOVING_C2_TO_PALM",
          "ERROR_SAFETY", "ERROR_COMMS", "ERROR_COMMS_ACK", "ERROR_ESTOP"}

EmptyMap == [x \in {} |-> TRUE]

Range(f) == {f[i] : i \in 1..Len(f)}

\* d.get(label) is truthy / d.get(label) == v, for a map that may lack the label
Truthy(d, label) == label \in DOMAIN d /\ d[label]
Is(d, label, v) == label \in DOMAIN d /\ d[label] = v

----------------------------------------------------------------------------
(* io_mapping.get_address.  str.upper() works on the characters of a word:  *)
(* Chars spells the words the model uses.                                   *)

Lower == <<"a", "b", "c", "d", "e", "f", "g", "h", "i", "j", "k", "l", "m", "n", "o",
          "p", "q", "r", "s", "t", "u", "v", "w", "x", "y", "z">>

Capital == <<"A", "B", "C", "D", "E", "F", "G", "H", "I", "J", "K", "L", "M", "N", "O",
            "P", "Q", "R", "S", "T", "U", "V", "W", "X", "Y", "Z">>

\* the strings get_address is called with: the labels of the map as written,
\* in capitals, in small letters and in alternating case, labels the map does
\* not have, and device names
Words == {"S1", "s1", "S2", "s2", "CS1", "cs1", "cS1", "CS2", "cs2", "cS2", "CS3", "cs3", "cS3",
         "M1_Trip", "M1_TRIP", "m1_trip", "m1_TrIp", "M2_Trip", "M2_TRIP", "m2_trip", "m2_TrIp",
         "E_Stop", "E_STOP", "e_stop", "e_sToP", "Manual_Select", "MANUAL_SELECT", "manual_select",
         "mAnUaL_SeLeCt", "Auto_Select", "AUTO_SELECT", "auto_select", "aUtO_SeLeCt",
         "Klaar_Geweeg_Btn", "KLAAR_GEWEEG_BTN", "klaar_geweeg_btn", "kLaAr_gEwEeG_BtN", "CPS_1",
         "cps_1", "cPs_1", "CPS_2", "cps_2", "cPs_2", "Reset_Btn", "RESET_BTN", "reset_btn",
         "rEsEt_bTn", "PALM_Run_Signal", "PALM_RUN_SIGNAL", "palm_run_signal", "pAlM_RuN_SiGnAl",
         "DHLM_Trip_Signal", "DHLM_TRIP_SIGNAL", "dhlm_trip_signal", "dHlM_TrIp_sIgNaL",
         "LED_GREEN", "led_green", "lEd_gReEn", "MOTOR_2", "motor_2", "mOtOr_2", "MOTOR_3",
         "motor_3", "mOtOr_3", "LED_RED", "led_red", "lEd_rEd", "VERSION", "version", "vErSiOn",
         "MOTOR_1", "S3", "", "INPUT", "OUTPUT", "input", "Output", "PLC"}

Chars(w) ==
    CASE w = "S1" -> <<"S", "1">>
  [] w = "s1" -> <<"s", "1">>
  [] w = "S2" -> <<"S", "2">>
  [] w = "s2" -> <<"s", "2">>
  [] w = "CS1" -> <<"C", "S", "1">>
  [] w = "cs1" -> <<"c", "s", "1">>
  [] w = "cS1" -> <<"c", "S", "1">>
  [] w = "CS2" -> <<"C", "S", "2">>
  [] w = "cs2" -> <<"c", "s", "2">>
  [] w = "cS2" -> <<"c", "S", "2">>
  [] w = "CS3" -> <<"C", "S", "3">>
  [] w = "cs3" -> <<"c", "s", "3">>
  [] w = "cS3" -> <<"c", "S", "3">>
  [] w = "M1_Trip" -> <<"M", "1", "_", "T", "r", "i", "p">>
  [] w = "M1_TRIP" -> <<"M", "1", "_", "T", "R", "I", "P">>
  [] w = "m1_trip" -> <<"m", "1", "_", "t", "r", "i", "p">>
  [] w = "m1_TrIp" -> <<"m", "1", "_", "T", "r", "I", "p">>
  [] w = "M2_Trip" -> <<"M", "2", "_", "T", "r", "i", "p">>
  [] w = "M2_TRIP" -> <<"M", "2", "_", "T", "R", "I", "P">>
  [] w = "m2_trip" -> <<"m", "2", "_", "t", "r", "i", "p">>
  [] w = "m2_TrIp" -> <<"m", "2", "_", "T", "r", "I", "p">>
  [] w = "E_Stop" -> <<"E", "_", "S", "t", "o", "p">>
  [] w = "E_STOP" -> <<"E", "_", "S", "T", "O", "P">>
  [] w = "e_stop" -> <<"e", "_", "s", "t", "o", "p">>
  [] w = "e_sToP" -> <<"e", "_", "s", "T", "o", "P">>
  [] w = "Manual_Select" -> <<"M", "a", "n", "u", "a", "l", "_", "S", "e", "l", "e", "c", "t">>
  [] w = "MANUAL_SELECT" -> <<"M", "A", "N", "U", "A", "L", "_", "S", "E", "L", "E", "C", "T">>
  [] w = "manual_select" -> <<"m", "a", "n", "u", "a", "l", "_", "s", "e", "l", "e", "c", "t">>
  [] w = "mAnUaL_SeLeCt" -> <<"m", "A", "n", "U", "a", "L", "_", "S", "e", "L", "e", "C", "t">>
  [] w = "Auto_Select" -> <<"A", "u", "t", "o", "_", "S", "e", "l", "e", "c", "t">>
  [] w = "AUTO_SELECT" -> <<"A", "U", "T", "O", "_", "S", "E", "L", "E", "C", "T">>
  [] w = "auto_select" -> <<"a", "u", "t", "o", "_", "s", "e", "l", "e", "c", "t">>
  [] w = "aUtO_SeLeCt" -> <<"a", "U", "t", "O", "_", "S", "e", "L", "e", "C", "t">>
  [] w = "Klaar_Geweeg_Btn" -> <<"K", "l", "a", "a", "r", "_", "G", "e", "w", "e", "e", "g", "_", "B", "t", "n">>
  [] w = "KLAAR_GEWEEG_BTN" -> <<"K", "L", "A", "A", "R", "_", "G", "E", "W", "E", "E", "G", "_", "B", "T", "N">>
  [] w = "klaar_geweeg_btn" -> <<"k", "l", "a", "a", "r", "_", "g", "e", "w", "e", "e", "g", "_", "b", "t", "n">>
  [] w = "kLaAr_gEwEeG_BtN" -> <<"k", "L", "a", "A", "r", "_", "g", "E", "w", "E", "e", "G", "_", "B", "t", "N">>
  [] w = "CPS_1" -> <<"C", "P", "S", "_", "1">>
  [] w = "cps_1" -> <<"c", "p", "s", "_", "1">>
  [] w = "cPs_1" -> <<"c", "P", "s", "_", "1">>
  [] w = "CPS_2" -> <<"C", "P", "S", "_", "2">>
  [] w = "cps_2" -> <<"c", "p", "s", "_", "2">>
  [] w = "cPs_2" -> <<"c", "P", "s", "_", "2">>
  [] w = "Reset_Btn" -> <<"R", "e", "s", "e", "t", "_", "B", "t", "n">>
  [] w = "RESET_BTN" -> <<"R", "E", "S", "E", "T", "_", "B", "T", "N">>
  [] w = "reset_btn" -> <<"r", "e", "s", "e", "t", "_", "b", "t", "n">>
  [] w = "rEsEt_bTn" -> <<"r", "E", "s", "E", "t", "_", "b", "T", "n">>
  [] w = "PALM_Run_Signal" -> <<"P", "A", "L", "M", "_", "R", "u", "n", "_", "S", "i", "g", "n", "a", "l">>
  [] w = "PALM_RUN_SIGNAL" -> <<"P", "A", "L", "M", "_", "R", "U", "N", "_", "S", "I", "G", "N", "A", "L">>
  [] w = "palm_run_signal" -> <<"p", "a", "l", "m", "_", "r", "u", "n", "_", "s", "i", "g", "n", "a", "l">>
  [] w = "pAlM_RuN_SiGnAl" -> <<"p", "A", "l", "M", "_", "R", "u", "N", "_", "S", "i", "G", "n", "A", "l">>
  [] w = "DHLM_Trip_Signal" -> <<"D", "H", "L", "M", "_", "T", "r", "i", "p", "_", "S", "i", "g", "n", "a", "l">>
  [] w = "DHLM_TRIP_SIGNAL" -> <<"D", "H", "L", "M", "_", "T", "R", "I", "P", "_", "S", "I", "G", "N", "A", "L">>
  [] w = "dhlm_trip_signal" -> <<"d", "h", "l", "m", "_", "t", "r", "i", "p", "_", "s", "i", "g", "n", "a", "l">>
  [] w = "dHlM_TrIp_sIgNaL" -> <<"d", "H", "l", "M", "_", "T", "r", "I", "p", "_", "s", "I", "g", "N", "a", "L">>
  [] w = "LED_GREEN" -> <<"L", "E", "D", "_", "G", "R", "E", "E", "N">>
  [] w = "led_green" -> <<"l", "e", "d", "_", "g", "r", "e", "e", "n">>
  [] w = "lEd_gReEn" -> <<"l", "E", "d", "_", "g", "R", "e", "E", "n">>
  [] w = "MOTOR_2" -> <<"M", "O", "T", "O", "R", "_", "2">>
  [] w = "motor_2" -> <<"m", "o", "t", "o", "r", "_", "2">>
  [] w = "mOtOr_2" -> <<"m", "O", "t", "O", "r", "_", "2">>
  [] w = "MOTOR_3" -> <<"M", "O", "T", "O", "R", "_", "3">>
  [] w = "motor_3" -> <<"m", "o", "t", "o", "r", "_", "3">>
  [] w = "mOtOr_3" -> <<"m", "O", "t", "O", "r", "_", "3">>
  [] w = "LED_RED" -> <<"L", "E", "D", "_", "R", "E", "D">>
  [] w = "led_red" -> <<"l", "e", "d", "_", "r", "e", "d">>
  [] w = "lEd_rEd" -> <<"l", "E", "d", "_", "r", "E", "d">>
  [] w = "VERSION" -> <<"V", "E", "R", "S", "I", "O", "N">>
  [] w = "version" -> <<"v", "e", "r", "s", "i", "o", "n">>
  [] w = "vErSiOn" -> <<"v", "E", "r", "S", "i", "O", "n">>
  [] w = "MOTOR_1" -> <<"M", "O", "T", "O", "R", "_", "1">>
  [] w = "S3" -> <<"S", "3">>
  [] w = "" -> <<>>
  [] w = "INPUT" -> <<"I", "N", "P", "U", "T">>
  [] w = "OUTPUT" -> <<"O", "U", "T", "P", "U", "T">>
  [] w = "input" -> <<"i", "n", "p", "u", "t">>
  [] w = "Output" -> <<"O", "u", "t", "p", "u", "t">>
  [] w = "PLC" -> <<"P", "L", "C">>

upper_char(c) ==
    IF \E k \in 1..Len(Lower) : Lower[k] = c
    THEN Capital[CHOOSE k \in 1..Len(Lower) : Lower[k] = c]
    ELSE c

RECURSIVE join(_)
join(cs) == IF Len(cs) = 0 THEN "" ELSE Head(cs) \o join(Tail(cs))

\* str.upper(), for each word
UPPER == [w \in Words |-> join([k \in 1..Len(Chars(w)) |-> upper_char(Chars(w)[k])])]

upper(w) == UPPER[w]

\* MODBUS_MAP[device][kind]: the labels, the one of address a at position a + 1
MODBUS_MAP ==
    [INPUT |-> [coils |-> <<"S1", "S2", "CS1", "CS2", "CS3", "M1_Trip", "M2_Trip", "E_Stop",
                            "Manual_Select", "Auto_Select", "Klaar_Geweeg_Btn", "CPS_1",
                            "CPS_2", "Reset_Btn", "PALM_Run_Signal", "DHLM_Trip_Signal">>,
                registers |-> <<>>],
     OUTPUT |-> [coils |-> <<"LED_GREEN", "MOTOR_2", "MOTOR_3", "LED_RED">>,
                 registers |-> <<"VERSION">>]]

\* the address None of "return None, None"
NoAddress == -1

NotFound == <<NoAddress, "None">>

\* "for addr, info in MODBUS_MAP[device][rtype].items(): if info['label'].upper()
\* == label: return addr, rtype", for the kinds of rtypes in turn
RECURSIVE search(_, _, _)
search(device, label, rtypes) ==
    IF Len(rtypes) = 0 THEN NotFound
    ELSE LET entries == MODBUS_MAP[device][Head(rtypes)]
             hits == {k \in 1..Len(entries) : upper(entries[k]) = label}
         IN IF hits # {}
            THEN <<(CHOOSE k \in hits : \A j \in hits : k <= j) - 1, Head(rtypes)>>
            ELSE search(device, label, Tail(rtypes))

\* a variant that compares the label as it is written
get_address_as_written(device, label, reg_type) ==
    IF upper(device) \notin DOMAIN MODBUS_MAP THEN NotFound
    ELSE IF reg_type # "None" THEN search(upper(device), label, <<reg_type>>)
    ELSE search(upper(device), label, <<"coils", "registers">>)

get_address(device, label, reg_type) ==
    IF upper(device) \notin DOMAIN MODBUS_MAP THEN NotFound
    ELSE IF reg_type # "None" THEN search(upper(device), upper(label), <<reg_type>>)
    ELSE search(upper(device), upper(label), <<"coils", "registers">>)

----------------------------------------------------------------------------
(* MachineMemory *)

mode(m) == IF "_MODE" \in DOMAIN m THEN m["_MODE"] ELSE "None"

get(m, key) == IF key \in DOMAIN m THEN m[key] ELSE NoTime

set(m, key, value) == [k \in DOMAIN m \cup {key} |-> IF k = key THEN value ELSE m[k]]

clear == EmptyMap

Event(level, msg, names) == [level |-> level, msg |-> msg, names |-> names]

log_event(s, level, msg) == [s EXCEPT !.ev = Append(@, Event(level, msg, {}))]

OnceKey(level, msg) == <<level, msg>>

log_once(s, level, msg) ==
    IF OnceKey(level, msg) \notin s.once
    THEN [log_event(s, level, msg) EXCEPT !.once = @ \cup {OnceKey(level, msg)}]
    ELSE s

clear_logged_once(s, msg) ==
    [s EXCEPT !.once = @ \ {OnceKey(lvl, msg) : lvl \in {"INFO", "WARNING", "ERROR", "CRITICAL"}}]

\* the text of the INFO entry set_mode logs for a change of mode
ModeMsg(old_mode, m) ==
    IF old_mode = "None" THEN "Mode: " \o m ELSE "Mode: " \o old_mode \o " -> " \o m

\* a variant that logs whether or not the mode changes
set_mode_always_logging(s, m) ==
    [log_event(s, "INFO", ModeMsg(mode(s.mem), m)) EXCEPT !.mem = set(s.mem, "_MODE", m)]

set_mode(s, m) ==
    IF mode(s.mem) # m
    THEN [log_event(s, "INFO", ModeMsg(mode(s.mem), m)) EXCEPT !.mem = set(s.mem, "_MODE", m)]
    ELSE [s EXCEPT !.mem = set(s.mem, "_MODE", m)]

----------------------------------------------------------------------------
(* modbus/mock.py: MockModbusClient, and Procon.set / Procon.get on it.     *)
(* A value is a bool or an int: its type and its value as an int, True      *)
(* being 1 and False 0.                                                     *)

BoolValue(b) == [type |-> "bool", v |-> IF b THEN 1 ELSE 0]

IntValue(n) == [type |-> "int", v |-> n]

None == [type |-> "None", v |-> 0]

\* MockModbusClient.__init__: the sixteen input definitions with state False,
\* no coil written, holding register 0 the default version
MockModbusClient ==
    [inputs |-> [n \in 1..Len(MODBUS_MAP.INPUT.coils) |-> BoolValue(FALSE)],
     coils |-> EmptyMap,
     holding_registers |-> [a \in {0} |-> IntValue(DEFAULT_VERSION)]]

\* read_coils(address, count = 1).bits[0]
read_coils(client, address) ==
    LET input_idx == address + 1 IN
    IF input_idx \in DOMAIN client.inputs THEN client.inputs[input_idx]
    ELSE IF address \in DOMAIN client.coils THEN client.coils[address]
    ELSE BoolValue(FALSE)

write_coil(client, address, value) == [client EXCEPT !.coils = set(@, address, value)]

\* read_holding_registers(address, count = 1).registers[0]
read_holding_registers(client, address) ==
    IF address \in DOMAIN client.holding_registers THEN client.holding_registers[address]
    ELSE IntValue(0)

write_register(client, address, value) ==
    [client EXCEPT !.holding_registers = set(@, address, value)]

\* Procon._set_to_device(device, label, value) with the client of the output
\* terminal: the client afterwards and the bool returned
set_to_device(client, device, label, value) ==
    LET found == get_address(device, label, "None")
        address == found[1]
        reg_type == found[2]
    IN IF found = NotFound \/ upper(device) # "OUTPUT" THEN [client |-> client, ret |-> FALSE]
       ELSE IF reg_type = "coils"
       THEN IF value.type # "bool" THEN [client |-> client, ret |-> FALSE]
            ELSE [client |-> write_coil(client, address, value), ret |-> TRUE]
       ELSE IF value.type \notin {"bool", "int"} THEN [client |-> client, ret |-> FALSE]
            ELSE [client |-> write_register(client, address, value), ret |-> TRUE]

\* Procon.set(label, value): OUTPUT first, then INPUT
Procon_set(client, label, value) ==
    LET r == set_to_device(client, "OUTPUT", label, value)
    IN IF r.ret THEN r ELSE set_to_device(client, "INPUT", label, value)

\* Procon._get_from_device(device, label) with the client of the output terminal
get_from_device(client, device, label) ==
    LET found == get_address(device, label, "None")
    IN IF found = NotFound \/ upper(device) # "OUTPUT" THEN None
       ELSE IF found[2] = "coils" THEN read_coils(client, found[1])
       ELSE read_holding_registers(client, found[1])

\* Procon.get(label): INPUT first, then OUTPUT
Procon_get(client, label) ==
    LET value == get_from_device(client, "INPUT", label)
    IN IF value # None THEN value ELSE get_from_device(client, "OUTPUT", label)

----------------------------------------------------------------------------
(* polling_thread.py: SystemState *)

\* SystemState(); rule_updates counts the calls of update_rule_state as
\* input_heartbeat counts those of update_from_poll
SystemState ==
    [input_data |-> EmptyMap, output_data |-> EmptyMap, in_error_comms_mode |-> FALSE,
     rule_state |-> EmptyMap, active_rules |-> <<>>,
     input_heartbeat |-> 0, rule_updates |-> 0, klaar_geweeg |-> FALSE]

update_from_poll(st, inp, out) ==
    [st EXCEPT !.input_data = inp, !.output_data = out, !.input_heartbeat = @ + 1]

update_rule_state(st, rule_state, names) ==
    [st EXCEPT !.rule_state = rule_state, !.active_rules = names,
               !.in_error_comms_mode = mode(rule_state) \in {"ERROR_COMMS", "ERROR_COMMS_ACK"},
               !.rule_updates = @ + 1]

\* "if input_data or output_data: self.state.update_from_poll(...)"
publish_poll(st, inp, out) ==
    IF inp # EmptyMap \/ out # EmptyMap THEN update_from_poll(st, inp, out) ELSE st

NoSnapshot == [taken |-> FALSE]

\* SystemState.get_snapshot(): copies of the fields, KLAAR_GEWEEG injected
\* into the copy of rule_state
get_snapshot(st) ==
    [taken |-> TRUE, input_data |-> st.input_data, output_data |-> st.output_data,
     in_error_comms_mode |-> st.in_error_comms_mode,
     rule_state |-> set(st.rule_state, "KLAAR_GEWEEG", st.klaar_geweeg),
     active_rules |-> st.active_rules, input_heartbeat |-> st.input_heartbeat,
     rule_updates |-> st.rule_updates, klaar_geweeg |-> st.klaar_geweeg]

\* threading.Lock.acquire that does not wait for the holder
acquire_without_waiting(thread) == lock' = thread

\* "with self.state.lock:" entered by a thread
acquire(thread) == lock = "free" /\ lock' = thread

release == lock' = "free"

NoCall == [op |-> "none"]

----------------------------------------------------------------------------
(* LogManager history and the queries on it *)

LogEntry(ts, data) == [timestamp |-> ts, data |-> data]

\* a variant that never evicts
log_append_unbounded(logs, entry) == Append(logs, entry)

\* deque(maxlen = max_entries).append
log_append(logs, entry) ==
    IF Len(logs) >= MaxEntries
    THEN Append(SubSeq(logs, 2, Len(logs)), entry)
    ELSE Append(logs, entry)

\* indices visited by "for entry in reversed(logs): if entry.timestamp <
\* cutoff_time: break": the longest suffix whose timestamps are all >= cutoff
WindowIdx(logs, cutoff) ==
    {i \in 1..Len(logs) : \A j \in i..Len(logs) : logs[j].timestamp >= cutoff}

\* a variant that wants every sample of the window to carry a version
check_comms_health_all_alive(logs, t, timeout_seconds) ==
    IF Len(logs) = 0 THEN TRUE
    ELSE LET cutoff_time == t - timeout_seconds IN
         IF logs[Len(logs)].timestamp < cutoff_time THEN FALSE
         ELSE \A i \in WindowIdx(logs, cutoff_time) :
                  (IF "VERSION" \in DOMAIN logs[i].data THEN logs[i].data["VERSION"] ELSE 0) # 0

\* a variant that looks at the newest sample only
check_comms_health_newest_only(logs, t, timeout_seconds) ==
    IF Len(logs) = 0 THEN TRUE
    ELSE LET cutoff_time == t - timeout_seconds IN
         IF logs[Len(logs)].timestamp < cutoff_time THEN FALSE
         ELSE (IF "VERSION" \in DOMAIN logs[Len(logs)].data
               THEN logs[Len(logs)].data["VERSION"] ELSE 0) # 0

check_comms_health(logs, t, timeout_seconds) ==
    IF Len(logs) = 0 THEN TRUE
    ELSE LET cutoff_time == t - timeout_seconds IN
         IF logs[Len(logs)].timestamp < cutoff_time THEN FALSE
         ELSE \E i \in WindowIdx(logs, cutoff_time) :
                  (IF "VERSION" \in DOMAIN logs[i].data THEN logs[i].data["VERSION"] ELSE 0) # 0

\* a variant that does not ask the window to reach back to the cutoff
extended_hold_without_cover(logs, t, label, value, hold_seconds) ==
    IF Len(logs) < 2 THEN FALSE
    ELSE LET win == WindowIdx(logs, t - hold_seconds)
         IN win # {} /\ \A i \in win : Is(logs[i].data, label, value)

extended_hold(logs, t, label, value, hold_seconds) ==
    IF Len(logs) < 2 THEN FALSE
    ELSE LET cutoff_time == t - hold_seconds
             win == WindowIdx(logs, cutoff_time)
         IN IF win = {} THEN FALSE
            ELSE LET oldest == CHOOSE i \in win : \A j \in win : i <= j IN
                 IF logs[oldest].timestamp > cutoff_time THEN FALSE
                 ELSE \A i \in win : Is(logs[i].data, label, value)

\* a variant that looks for the transition in the whole history
detect_edge_anywhere(logs, t, label, edge_type, window_ms) ==
    \E i \in 1..(Len(logs) - 1) :
        IF edge_type = "rising"
        THEN Is(logs[i].data, label, FALSE) /\ Is(logs[i + 1].data, label, TRUE)
        ELSE Is(logs[i].data, label, TRUE) /\ Is(logs[i + 1].data, label, FALSE)

\* window_ms / 1000 seconds is window_ms * TicksPerSecond / 1000 ticks; the
\* comparison with cutoff_time is made on both sides times 1000
detect_edge(logs, t, label, edge_type, window_ms) ==
    IF Len(logs) < 2 THEN FALSE
    ELSE LET win == {i \in 1..Len(logs) :
                        \A j \in i..Len(logs) :
                            logs[j].timestamp * 1000 >= t * 1000 - window_ms * TicksPerSecond}
         IN IF Cardinality(win) < 2 THEN FALSE
            ELSE \E i \in win : /\ i + 1 \in win
                                /\ IF edge_type = "rising"
                                   THEN Is(logs[i].data, label, FALSE) /\ Is(logs[i + 1].data, label, TRUE)
                                   ELSE Is(logs[i].data, label, TRUE) /\ Is(logs[i + 1].data, label, FALSE)

rising_edge(logs, t, label) == detect_edge(logs, t, label, "rising", default_edge_window_ms)

----------------------------------------------------------------------------
(* The state a scan works on.  s.mem, s.coils, s.timers, s.open and s.once  *)
(* are the objects the rules mutate; s.clk is time.time(); s.ev, s.wr and   *)
(* s.act collect the events logged, the coil writes issued and the rules    *)
(* triggered; s.inp, s.ilog, s.olog are what the tick read and logged;      *)
(* s.ook says whether the output terminal answers reads, s.wok and s.cok    *)
(* whether the terminals accept a write and a connect.                      *)

\* a variant in which a coil keeps the first value written to it in a scan
procon_set_first_wins(s, label, value) ==
    [s EXCEPT !.wr = Append(@, <<label, value>>),
              !.coils = IF s.wok /\ \A k \in 1..Len(s.wr) : s.wr[k][1] # label
                        THEN [@ EXCEPT ![label] = value] ELSE @]

\* Procon.set(label, value) on an output coil
procon_set(s, label, value) ==
    [s EXCEPT !.wr = Append(@, <<label, value>>),
              !.coils = IF s.wok THEN [@ EXCEPT ![label] = value] ELSE @]

\* Procon.get(label) on an input coil: truthiness of the value read
procon_get(s, label) == Truthy(s.inp, label)

\* a variant that stops MOTOR_2 only
emergency_stop_motor_2_only(s) ==
    log_event(procon_set(s, "MOTOR_2", FALSE), "INFO", "All motors stopped")

\* ConveyorController.emergency_stop_all_motors
emergency_stop_all_motors(s) ==
    log_event(procon_set(procon_set(s, "MOTOR_2", FALSE), "MOTOR_3", FALSE),
              "INFO", "All motors stopped")

\* an exception leaves the rule: s.exc is set until the engine catches it
raise(s) == [s EXCEPT !.exc = TRUE]

----------------------------------------------------------------------------
(* rules.py: the rule set.  X_condition(s) and X_action(s) are the methods  *)
(* of rule class X.                                                        *)

\* ----- CommsHealthCheckRule -----
CommsHealthCheck_condition(s) == TRUE

CommsHealthCheck_led(s, comms_healthy) ==
    LET led_is_true == s.ook /\ s.coils["LED_GREEN"]
        led_is_false == s.ook /\ ~s.coils["LED_GREEN"]
    IN IF comms_healthy /\ ~led_is_true THEN procon_set(s, "LED_GREEN", TRUE)
       ELSE IF ~comms_healthy /\ ~led_is_false THEN procon_set(s, "LED_GREEN", FALSE)
       ELSE s

\* a variant that leaves the transports open on a comms failure
CommsHealthCheck_action_no_close(s) ==
    LET comms_healthy == check_comms_health(s.olog, s.clk, COMMS_TIMEOUT)
        s1 == IF ~comms_healthy /\ mode(s.mem) \notin {"ERROR_COMMS", "ERROR_COMMS_ACK"}
              THEN emergency_stop_all_motors(
                       log_event(set_mode(s, "ERROR_COMMS"), "CRITICAL", "Communications FAILED"))
              ELSE IF comms_healthy /\ mode(s.mem) = "ERROR_COMMS"
              THEN clear_logged_once(log_once(s, "INFO", "Communications RESTORED"),
                                     "Attempting to reconnect")
              ELSE IF mode(s.mem) = "ERROR_COMMS"
              THEN [log_once(s, "INFO", "Attempting to reconnect")
                    EXCEPT !.open = [d \in {"INPUT", "OUTPUT"} |-> s.cok]]
              ELSE s
    IN CommsHealthCheck_led(s1, comms_healthy)

CommsHealthCheck_action(s) ==
    LET comms_healthy == check_comms_health(s.olog, s.clk, COMMS_TIMEOUT)
        s1 == IF ~comms_healthy /\ mode(s.mem) \notin {"ERROR_COMMS", "ERROR_COMMS_ACK"}
              THEN [emergency_stop_all_motors(
                        log_event(set_mode(s, "ERROR_COMMS"), "CRITICAL", "Communications FAILED"))
                    EXCEPT !.open = [d \in {"INPUT", "OUTPUT"} |-> FALSE]]
              ELSE IF comms_healthy /\ mode(s.mem) = "ERROR_COMMS"
              THEN clear_logged_once(log_once(s, "INFO", "Communications RESTORED"),
                                     "Attempting to reconnect")
              ELSE IF mode(s.mem) = "ERROR_COMMS"
              THEN [log_once(s, "INFO", "Attempting to reconnect")
                    EXCEPT !.open = [d \in {"INPUT", "OUTPUT"} |-> s.cok]]
              ELSE s
    IN CommsHealthCheck_led(s1, comms_healthy)

\* ----- CommsAcknowledgeRule -----
CommsAcknowledge_condition(s) ==
    mode(s.mem) = "ERROR_COMMS" /\ procon_get(s, "Manual_Select")

CommsAcknowledge_action(s) ==
    log_event(set_mode(s, "ERROR_COMMS_ACK"), "INFO", "Comms failure ACKNOWLEDGED")

\* ----- CommsResetRule -----
CommsReset_condition(s) ==
    mode(s.mem) = "ERROR_COMMS_ACK" /\ procon_get(s, "Auto_Select")

\* a variant that resets without looking at the heartbeat
CommsReset_action_unchecked(s) ==
    set_mode(log_event(s, "INFO", "Communications RESTORED and RESET"), "READY")

CommsReset_action(s) ==
    IF check_comms_health(s.olog, s.clk, COMMS_TIMEOUT)
    THEN set_mode(log_event(s, "INFO", "Communications RESTORED and RESET"), "READY")
    ELSE set_mode(log_event(s, "WARNING", "Cannot reset"), "ERROR_COMMS")

\* ----- ManualModeRule -----
ManualMode_condition(s) ==
    /\ procon_get(s, "Manual_Select")
    /\ mode(s.mem) # "MANUAL"
    /\ mode(s.mem) # "ERROR_COMMS_ACK"

ManualMode_action(s) ==
    set_mode(procon_set(procon_set(s, "MOTOR_2", FALSE), "MOTOR_3", FALSE), "MANUAL")

\* a variant of ReadyRule.condition that does not start from an unset mode
Ready_condition_after_reset(s) ==
    LET immediate_ok == procon_get(s, "Auto_Select") /\ procon_get(s, "E_Stop")
        trips_stable == /\ procon_get(s, "M1_Trip")
                        /\ procon_get(s, "M2_Trip")
                        /\ procon_get(s, "DHLM_Trip_Signal")
        can_transition == mode(s.mem) \in {"MANUAL", "ERROR_SAFETY"}
    IN immediate_ok /\ trips_stable /\ can_transition

\* ----- ReadyRule -----
Ready_condition(s) ==
    LET immediate_ok == procon_get(s, "Auto_Select") /\ procon_get(s, "E_Stop")
        trips_stable == /\ procon_get(s, "M1_Trip")
                        /\ procon_get(s, "M2_Trip")
                        /\ procon_get(s, "DHLM_Trip_Signal")
        can_transition == mode(s.mem) \in {"None", "MANUAL", "ERROR_SAFETY"}
    IN immediate_ok /\ trips_stable /\ can_transition

Ready_action(s) ==
    log_event(procon_set(procon_set(set_mode(s, "READY"), "MOTOR_2", FALSE), "MOTOR_3", FALSE),
              "INFO", "System is READY and Motors are OFF")

\* a variant of ClearReadyRule.condition without the debounce
ClearReady_condition_level(s) ==
    LET trip_violations ==
            \/ ~procon_get(s, "M1_Trip")
            \/ ~procon_get(s, "M2_Trip")
            \/ ~procon_get(s, "DHLM_Trip_Signal")
    IN trip_violations /\ mode(s.mem) # "ERROR_SAFETY"

\* ----- ClearReadyRule -----
ClearReady_condition(s) ==
    LET trip_violations ==
            \/ extended_hold(s.ilog, s.clk, "M1_Trip", FALSE, HOLD_SECONDS)
            \/ extended_hold(s.ilog, s.clk, "M2_Trip", FALSE, HOLD_SECONDS)
            \/ extended_hold(s.ilog, s.clk, "DHLM_Trip_Signal", FALSE, HOLD_SECONDS)
    IN trip_violations /\ mode(s.mem) # "ERROR_SAFETY"

ClearReady_violations(s) ==
    {n \in {"Auto_Select", "M1_Trip", "M2_Trip", "DHLM_Trip_Signal", "E_Stop"} : ~procon_get(s, n)}
    \cup (IF mode(s.mem) = "ERROR_COMMS" THEN {"COMMS_FAILED"} ELSE {})
    \cup (IF mode(s.mem) = "ERROR_ESTOP" THEN {"E_STOP_TRIGGERED"} ELSE {})

ClearReady_action(s) ==
    LET violations == ClearReady_violations(s)
        s1 == procon_set(procon_set(set_mode(s, "ERROR_SAFETY"), "MOTOR_2", FALSE), "MOTOR_3", FALSE)
    IN [s1 EXCEPT !.ev = Append(@, Event("WARNING", "Safety violated", violations))]

\* ----- C3ReadyTimerStart / C3ReadyTimerReset -----
\* a variant that restarts the timer in every scan that sees S1 broken
C3ReadyTimerStart_condition_refreshing(s) ==
    /\ ~procon_get(s, "S1")
    /\ mode(s.mem) # "ERROR_ESTOP"

C3ReadyTimerStart_condition(s) ==
    /\ ~procon_get(s, "S1")
    /\ get(s.mem, "C3_Timer") = NoTime
    /\ mode(s.mem) # "ERROR_ESTOP"

C3ReadyTimerStart_action(s) == [s EXCEPT !.mem = set(s.mem, "C3_Timer", s.clk)]

C3ReadyTimerReset_condition(s) ==
    procon_get(s, "S1") /\ get(s.mem, "C3_Timer") # NoTime

C3ReadyTimerReset_action(s) == [s EXCEPT !.mem = set(s.mem, "C3_Timer", NoTime)]

\* ----- CratePositionsSensorLedOn / Off -----
CratePositionsSensorLedOn_condition(s) ==
    ~procon_get(s, "CPS_1") \/ ~procon_get(s, "CPS_2")

CratePositionsSensorLedOn_action(s) == procon_set(s, "LED_RED", TRUE)

CratePositionsSensorLedOff_condition(s) ==
    procon_get(s, "CPS_1") /\ procon_get(s, "CPS_2")

CratePositionsSensorLedOff_action(s) == procon_set(s, "LED_RED", FALSE)

\* ----- InitiateMoveC3toC2 -----
InitiateMoveC3toC2_condition(s) ==
    /\ mode(s.mem) = "READY"
    /\ procon_get(s, "S2")
    /\ ~procon_get(s, "S1")

InitiateMoveC3toC2_action(s) ==
    LET s1 == set_mode(s, "MOVING_C3_TO_C2")
        remaining_delay == C3_DELAY
        motors_start_time == s1.clk + remaining_delay
        s2 == [s1 EXCEPT !.mem = set(set(s1.mem, "C3toC2_StartTime", motors_start_time),
                                     "C3toC2_Delay", remaining_delay)]
    IN log_event(s2, "INFO", "MOVING_C3_TO_C2 - Both motors will start")

\* a variant of StartMovingC3toC2AfterDelay.condition that does not wait for
\* the start time
StartMovingC3toC2AfterDelay_condition_at_once(s) ==
    LET start_time == get(s.mem, "C3toC2_StartTime") IN
    /\ mode(s.mem) = "MOVING_C3_TO_C2"
    /\ start_time # NoTime

\* ----- StartMovingC3toC2AfterDelay -----
StartMovingC3toC2AfterDelay_condition(s) ==
    LET start_time == get(s.mem, "C3toC2_StartTime") IN
    /\ mode(s.mem) = "MOVING_C3_TO_C2"
    /\ start_time # NoTime
    /\ s.clk >= start_time

StartMovingC3toC2AfterDelay_action(s) ==
    LET s1 == [s EXCEPT !.mem = set(s.mem, "C3toC2_StartTime", NoTime)]
        s2 == procon_set(s1, "MOTOR_2", TRUE)
        s3 == [s2 EXCEPT !.clk = @ + MOTOR_STAGGER]          \* time.sleep(2.0)
        s4 == procon_set(log_event(s3, "INFO", "Motor 3 started after 2 second delay"),
                         "MOTOR_3", TRUE)
    IN IF get(s4.mem, "C3toC2_Delay") = NoTime
       THEN raise(s4)                                        \* format of None raises
       ELSE [log_event(s4, "INFO", "Started MOVING_C3_TO_C2")
             EXCEPT !.mem = set(s4.mem, "C3toC2_Delay", NoTime)]

\* a variant of CompleteMoveC3toC2.action that leaves the start time pending
CompleteMoveC3toC2_action_keeping_target(s) ==
    LET s1 == procon_set(procon_set(s, "MOTOR_2", FALSE), "MOTOR_3", FALSE)
    IN set_mode(log_event(s1, "INFO", "Completed MOVING_C3_TO_C2"), "READY")

\* ----- CompleteMoveC3toC2 -----
CompleteMoveC3toC2_condition(s) ==
    mode(s.mem) = "MOVING_C3_TO_C2" /\ ~procon_get(s, "S2")

CompleteMoveC3toC2_action(s) ==
    LET s1 == procon_set(procon_set(s, "MOTOR_2", FALSE), "MOTOR_3", FALSE)
        s2 == [s1 EXCEPT !.mem = set(set(s1.mem, "C3toC2_StartTime", NoTime),
                                     "C3toC2_Delay", NoTime)]
    IN set_mode(log_event(s2, "INFO", "Completed MOVING_C3_TO_C2"), "READY")

\* ----- InitiateMoveC2toPalm -----
InitiateMoveC2toPalm_condition(s) ==
    /\ mode(s.mem) = "READY"
    /\ procon_get(s, "S1")
    /\ ~procon_get(s, "S2")
    /\ rising_edge(s.ilog, s.clk, "Klaar_Geweeg_Btn")
    /\ procon_get(s, "PALM_Run_Signal")

InitiateMoveC2toPalm_action(s) ==
    IF mode(s.mem) = "None"
    THEN raise(s)                                             \* None.startswith raises
    ELSE IF mode(s.mem) \notin {"ERROR_SAFETY", "ERROR_COMMS", "ERROR_COMMS_ACK", "ERROR_ESTOP"}
    THEN log_once(set_mode(procon_set(s, "MOTOR_2", TRUE), "MOVING_C2_TO_PALM"),
                  "INFO", "Started MOVING_C2_TO_PALM - MOTOR_2 running")
    ELSE s

\* ----- CompleteMoveC2toPalm -----
CompleteMoveC2toPalm_condition(s) ==
    mode(s.mem) = "MOVING_C2_TO_PALM" /\ procon_get(s, "S2")

\* Timer(1.0, stop_motor_2).start()
CompleteMoveC2toPalm_action(s) ==
    log_once([s EXCEPT !.timers = @ \cup {s.clk + STOP_DELAY}],
             "INFO", "MOVING_C2_TO_PALM - MOTOR_2 will stop in 1 seconds.")

\* the callback stop_motor_2 of CompleteMoveC2toPalm.action
stop_motor_2(s) ==
    LET s1 == procon_set(s, "MOTOR_2", FALSE)
        s2 == log_once(s1, "INFO", "MOTOR_2 stopped after 1s delay")
        s3 == set_mode(s2, "READY")
    IN clear_logged_once(clear_logged_once(s3, "Started MOVING_C2_TO_PALM - MOTOR_2 running"),
                         "MOVING_C2_TO_PALM - MOTOR_2 will stop in 1 seconds.")

\* ----- InitiateMoveBoth -----
InitiateMoveBoth_condition(s) ==
    /\ mode(s.mem) = "READY"
    /\ ~procon_get(s, "S1")
    /\ ~procon_get(s, "S2")
    /\ rising_edge(s.ilog, s.clk, "Klaar_Geweeg_Btn")
    /\ procon_get(s, "PALM_Run_Signal")

Max(a, b) == IF a >= b THEN a ELSE b

InitiateMoveBoth_action(s) ==
    LET s1 == procon_set(set_mode(s, "MOVING_BOTH"), "MOTOR_2", TRUE)
        c3_timer_start == get(s1.mem, "C3_Timer")
        found == c3_timer_start # NoTime /\ c3_timer_start # 0     \* "if c3_timer_start:"
        elapsed == IF found THEN s1.clk - c3_timer_start ELSE 0
        remaining_delay == IF found THEN Max(0, C3_DELAY - elapsed) ELSE C3_DELAY
        s2 == IF found THEN s1 ELSE log_event(s1, "WARNING", "C3_Timer not found")
        motor3_start_time == s2.clk + remaining_delay
        s3 == [s2 EXCEPT !.mem = set(set(s2.mem, "Motor3_StartTime", motor3_start_time),
                                     "Motor3_Delay", remaining_delay)]
    IN log_once(s3, "INFO", "MOVING_BOTH - Motor 3 will start in " \o ToString(remaining_delay)
                            \o " after " \o ToString(elapsed))

\* a variant of StartMovingMotor3AfterDelay.condition that does not wait
\* for the start time
StartMovingMotor3AfterDelay_condition_at_once(s) ==
    LET motor3_time == get(s.mem, "Motor3_StartTime") IN
    /\ mode(s.mem) = "MOVING_BOTH"
    /\ motor3_time # NoTime

\* ----- StartMovingMotor3AfterDelay -----
StartMovingMotor3AfterDelay_condition(s) ==
    LET motor3_time == get(s.mem, "Motor3_StartTime") IN
    /\ mode(s.mem) = "MOVING_BOTH"
    /\ motor3_time # NoTime
    /\ s.clk >= motor3_time

StartMovingMotor3AfterDelay_action(s) ==
    LET s1 == [s EXCEPT !.mem = set(s.mem, "Motor3_StartTime", NoTime)]
        s2 == [s1 EXCEPT !.clk = @ + MOTOR_STAGGER]          \* time.sleep(2.0)
        s3 == procon_set(log_event(s2, "INFO", "Motor 3 started after 2 second delay"),
                         "MOTOR_3", TRUE)
    IN IF get(s3.mem, "Motor3_Delay") = NoTime
       THEN raise(s3)                                        \* format of None raises
       ELSE [log_event(s3, "INFO", "Started MOVING_BOTH")
             EXCEPT !.mem = set(s3.mem, "Motor3_Delay", NoTime)]

\* ----- CompleteMoveBoth -----
CompleteMoveBoth_condition(s) ==
    /\ mode(s.mem) = "MOVING_BOTH"
    /\ procon_get(s, "S1")
    /\ ~procon_get(s, "S2")

CompleteMoveBoth_action(s) ==
    LET s1 == procon_set(procon_set(s, "MOTOR_3", FALSE), "MOTOR_2", FALSE)
        s2 == [s1 EXCEPT !.mem = set(set(s1.mem, "Motor3_StartTime", NoTime),
                                     "Motor3_Delay", NoTime)]
    IN set_mode(log_event(s2, "INFO", "Completed MOVING_BOTH"), "READY")

\* ----- EmergencyStopRule -----
EmergencyStop_condition(s) == extended_hold(s.ilog, s.clk, "E_Stop", FALSE, HOLD_SECONDS)

\* a variant that latches the mode but leaves the motors as they are
EmergencyStop_action_keeps_motors(s) ==
    IF mode(s.mem) # "ERROR_ESTOP"
    THEN log_event(set_mode([s EXCEPT !.mem = clear], "ERROR_ESTOP"),
                   "CRITICAL", "EMERGENCY STOP activated")
    ELSE s

EmergencyStop_action(s) ==
    IF mode(s.mem) # "ERROR_ESTOP"
    THEN LET s1 == emergency_stop_all_motors(s)
             s2 == [s1 EXCEPT !.mem = clear]
         IN log_event(set_mode(s2, "ERROR_ESTOP"), "CRITICAL", "EMERGENCY STOP activated")
    ELSE s

\* ----- EmergencyStopResetRule -----
EmergencyStopReset_condition(s) ==
    /\ mode(s.mem) = "ERROR_ESTOP"
    /\ procon_get(s, "E_Stop")
    /\ procon_get(s, "Manual_Select")

EmergencyStopReset_action(s) ==
    log_event(set_mode(s, "None"), "INFO", "Emergency stop RESET")

----------------------------------------------------------------------------
(* Rules for exercising the engine by itself: subclasses of Rule whose      *)
(* condition returns or raises, and whose action completes or raises after  *)
(* its writes, as the probe input of the tick says.                         *)

ProbeRules == {21, 22, 23}

ProbeNames == [i \in ProbeRules |-> "Probe " \o ToString(i - 20)]

\* condition false; condition raises; condition true and the action
\* completes; condition true and the action raises
ProbeOutcomes == {[cond |-> "false", act |-> "ok"], [cond |-> "raise", act |-> "ok"],
                  [cond |-> "true", act |-> "ok"], [cond |-> "true", act |-> "raise"]}

NoProbe == [i \in ProbeRules |-> [cond |-> "false", act |-> "ok"]]

Probe_condition_raises(i, s) == s.probe[i].cond = "raise"

Probe_condition(i, s) == s.probe[i].cond = "true"

\* notes "started" under its name, writes LED_RED, notes "done"; an action
\* that raises does so after the first note
Probe_action(i, s) ==
    LET s1 == [s EXCEPT !.mem = set(s.mem, ProbeNames[i], "started")]
        s2 == procon_set(s1, "LED_RED", i = 22)
    IN IF s.probe[i].act = "raise" THEN raise(s1)
       ELSE [s2 EXCEPT !.mem = set(s2.mem, ProbeNames[i], "done")]

----------------------------------------------------------------------------
(* rules.setup_rules and RuleEngine.evaluate *)

RuleNames == <<"Comms Health Monitor", "Comms Acknowledge", "Comms Reset",
               "Manual Mode", "System Ready Check", "Clear Ready State",
               "Start Timer When S1 Is broken", "Reset Timer When S1 Is made",
               "Crate Positioning On", "Crate Positioning Off",
               "Initiate Move C3->C2", "Start Moving C3->C2 After Delay", "Complete Move C3->C2",
               "Initiate Move C2->PALM", "Complete Move C2->PALM",
               "Initiate Move Both", "Start Moving Motor 3 After Delay", "Complete Move Both",
               "Emergency Stop", "Emergency Stop Reset">>

\* the rule list setup_rules registers: the rules above, in this order
setup_rules == [i \in 1..Len(RuleNames) |-> i]

rule_name(i) == IF i \in ProbeRules THEN ProbeNames[i] ELSE RuleNames[i]

\* rule.condition(...) raises
condition_raises(i, s) == i \in ProbeRules /\ Probe_condition_raises(i, s)

condition(i, s) ==
    CASE i = 1 -> CommsHealthCheck_condition(s)
      [] i = 2 -> CommsAcknowledge_condition(s)
      [] i = 3 -> CommsReset_condition(s)
      [] i = 4 -> ManualMode_condition(s)
      [] i = 5 -> Ready_condition(s)
      [] i = 6 -> ClearReady_condition(s)
      [] i = 7 -> C3ReadyTimerStart_condition(s)
      [] i = 8 -> C3ReadyTimerReset_condition(s)
      [] i = 9 -> CratePositionsSensorLedOn_condition(s)
      [] i = 10 -> CratePositionsSensorLedOff_condition(s)
      [] i = 11 -> InitiateMoveC3toC2_condition(s)
      [] i = 12 -> StartMovingC3toC2AfterDelay_condition(s)
      [] i = 13 -> CompleteMoveC3toC2_condition(s)
      [] i = 14 -> InitiateMoveC2toPalm_condition(s)
      [] i = 15 -> CompleteMoveC2toPalm_condition(s)
      [] i = 16 -> InitiateMoveBoth_condition(s)
      [] i = 17 -> StartMovingMotor3AfterDelay_condition(s)
      [] i = 18 -> CompleteMoveBoth_condition(s)
      [] i = 19 -> EmergencyStop_condition(s)
      [] i = 20 -> EmergencyStopReset_condition(s)
      [] i \in ProbeRules -> Probe_condition(i, s)

action(i, s) ==
    CASE i = 1 -> CommsHealthCheck_action(s)
      [] i = 2 -> CommsAcknowledge_action(s)
      [] i = 3 -> CommsReset_action(s)
      [] i = 4 -> ManualMode_action(s)
      [] i = 5 -> Ready_action(s)
      [] i = 6 -> ClearReady_action(s)
      [] i = 7 -> C3ReadyTimerStart_action(s)
      [] i = 8 -> C3ReadyTimerReset_action(s)
      [] i = 9 -> CratePositionsSensorLedOn_action(s)
      [] i = 10 -> CratePositionsSensorLedOff_action(s)
      [] i = 11 -> InitiateMoveC3toC2_action(s)
      [] i = 12 -> StartMovingC3toC2AfterDelay_action(s)
      [] i = 13 -> CompleteMoveC3toC2_action(s)
      [] i = 14 -> InitiateMoveC2toPalm_action(s)
      [] i = 15 -> CompleteMoveC2toPalm_action(s)
      [] i = 16 -> InitiateMoveBoth_action(s)
      [] i = 17 -> StartMovingMotor3AfterDelay_action(s)
      [] i = 18 -> CompleteMoveBoth_action(s)
      [] i = 19 -> EmergencyStop_action(s)
      [] i = 20 -> EmergencyStopReset_action(s)
      [] i \in ProbeRules -> Probe_action(i, s)

\* a variant that swallows the exception without a log entry
rule_error_silent(s, name) == [s EXCEPT !.exc = FALSE]

\* the engine's "except Exception as e" around one rule
rule_error(s, name) ==
    [s EXCEPT !.exc = FALSE, !.ev = Append(@, Event("ERROR", "Error in rule", {name}))]

\* a variant that counts a trigger only once the action has returned
run_rule_counting_returns(i, s) ==
    IF ~s.en[i] THEN s
    ELSE IF condition_raises(i, s) THEN rule_error(s, rule_name(i))
    ELSE IF condition(i, s)
    THEN LET r == action(i, [s EXCEPT !.act = Append(@, rule_name(i))])
         IN IF r.exc THEN rule_error(r, rule_name(i)) ELSE [r EXCEPT !.cnt[i] = @ + 1]
    ELSE s

\* body of "for rule in self.rules" for rule i
run_rule(i, s) ==
    IF ~s.en[i] THEN s
    ELSE IF condition_raises(i, s) THEN rule_error(s, rule_name(i))
    ELSE IF condition(i, s)
    THEN LET r == action(i, [s EXCEPT !.act = Append(@, rule_name(i)),
                                      !.cnt[i] = @ + 1])
         IN IF r.exc THEN rule_error(r, rule_name(i)) ELSE r
    ELSE s

RECURSIVE run_rules(_, _)
run_rules(k, s) ==
    IF k > Len(s.rules) THEN s
    ELSE LET r == run_rule(s.rules[k], s)
         IN IF r.clk >= s.clk THEN run_rules(k + 1, r) ELSE r     \* the clock never runs backwards

\* a variant that does not clear active_rules
evaluate_keeping_active(s) == run_rules(1, s)

\* RuleEngine.evaluate: active_rules.clear(), then every rule in order
evaluate(s) == run_rules(1, [s EXCEPT !.act = <<>>])

\* RuleEngine.enable_rule / disable_rule: the first rule of that name
set_enabled(en, rule_list, name, value) ==
    IF \E k \in 1..Len(rule_list) : rule_name(rule_list[k]) = name
    THEN LET k == CHOOSE k \in 1..Len(rule_list) :
                      /\ rule_name(rule_list[k]) = name
                      /\ \A j \in 1..(k - 1) : rule_name(rule_list[j]) # name
         IN [en EXCEPT ![rule_list[k]] = value]
    ELSE en

----------------------------------------------------------------------------
(* The environment of one tick: the time since the previous tick, what the  *)
(* terminals hold and whether they answer.                                  *)

SafeInputs ==
    [l \in InputLabels |->
        l \in {"S1", "S2", "M1_Trip", "M2_Trip", "E_Stop", "Auto_Select",
               "CPS_1", "CPS_2", "PALM_Run_Signal", "DHLM_Trip_Signal"}]

\* the safe defaults with the labels of F inverted
Flip(F) == [l \in InputLabels |-> IF l \in F THEN ~SafeInputs[l] ELSE SafeInputs[l]]

\* pulse: the labels that pulse unseen before the tick; probe: what the
\* probe rules do in it
Env(dts, flips, vers, ioks, ooks, woks, coks) ==
    [dt : dts, inp : {Flip(F) : F \in flips}, ver : vers,
     iok : ioks, ook : ooks, wok : woks, cok : coks,
     pulse : {{}}, probe : {NoProbe}]

----------------------------------------------------------------------------
(* Initial state: ConveyorController, RuleEngine and LogManager constructed *)

InitWith(rule_list) ==
    /\ now = 1
    /\ mem = EmptyMap
    /\ coils = [c \in OutputCoils |-> FALSE]
    /\ input_logs = <<>>
    /\ output_logs = <<>>
    /\ timers = {}
    /\ open = [d \in {"INPUT", "OUTPUT"} |-> FALSE]
    /\ once = {}
    /\ input_data = EmptyMap
    /\ active_rules = <<>>
    /\ new_events = <<>>
    /\ writes = <<>>
    /\ rules = rule_list
    /\ enabled = [i \in Range(rule_list) |-> TRUE]
    /\ trigger_count = [i \in Range(rule_list) |-> 0]
    /\ pulsed = {}
    /\ probed = NoProbe
    /\ shared = SystemState
    /\ lock = "free"
    /\ pc = [poll |-> "read", reader |-> "idle"]
    /\ snapshot = NoSnapshot
    /\ api_call = NoCall
    /\ terminal = MockModbusClient
    /\ stop_event = FALSE
    /\ sleep_time = 0

\* main(): setup_rules(rule_engine)
Init == InitWith(setup_rules)

\* the scan state built from the variables
ScanState(t, inp, ilog, olog, ook, wok, cok) ==
    [mem |-> mem, coils |-> coils, timers |-> timers, open |-> open, once |-> once,
     clk |-> t, ev |-> <<>>, wr |-> <<>>, act |-> active_rules,
     inp |-> inp, ilog |-> ilog, olog |-> olog,
     ook |-> ook, wok |-> wok, cok |-> cok,
     rules |-> rules, en |-> enabled, cnt |-> trigger_count,
     exc |-> FALSE, probe |-> NoProbe]

Commit(s) ==
    /\ now' = s.clk
    /\ mem' = s.mem
    /\ coils' = s.coils
    /\ timers' = s.timers
    /\ open' = s.open
    /\ once' = s.once
    /\ active_rules' = s.act
    /\ new_events' = s.ev
    /\ writes' = s.wr
    /\ rules' = s.rules
    /\ enabled' = s.en
    /\ trigger_count' = s.cnt

\* PollingThread.run, the pass of the loop up to the publication:
\* read_and_log_all_inputs, read_and_log_all_outputs, RuleEngine.evaluate
Poll(e) ==
    LET t == now + e.dt
        inp == IF e.iok THEN e.inp ELSE EmptyMap
        out == [r \in {"VERSION"} |-> IF e.ook THEN e.ver ELSE 0]
        ilog == log_append(input_logs, LogEntry(t, inp))
        olog == log_append(output_logs, LogEntry(t, out))
        s == evaluate([ScanState(t, inp, ilog, olog, e.ook, e.wok, e.cok)
                       EXCEPT !.probe = e.probe])
    IN /\ input_logs' = ilog
       /\ output_logs' = olog
       /\ input_data' = inp
       /\ pulsed' = e.pulse
       /\ probed' = e.probe
       /\ Commit(s)

\* the output map read by the latest tick
output_data == IF Len(output_logs) = 0 THEN EmptyMap ELSE output_logs[Len(output_logs)].data

\* PollingThread.run, one whole pass of the loop with no other thread in
\* between: the poll, then the publication under the lock
Tick(e) ==
    /\ Poll(e)
    /\ shared' = update_rule_state(publish_poll(shared, input_data', output_data'),
                                   mem', active_rules')
    /\ UNCHANGED <<lock, pc, snapshot, api_call, terminal,
          stop_event, sleep_time>>

\* the Timer thread runs stop_motor_2 once its delay has elapsed
TimerFire(wok) ==
    \E due \in timers :
        /\ due <= now
        /\ LET s0 == ScanState(now, input_data, input_logs, output_logs, TRUE, wok, TRUE)
               s == stop_motor_2([s0 EXCEPT !.timers = @ \ {due}])
           IN Commit(s)
        /\ UNCHANGED <<input_logs, output_logs, input_data, pulsed, probed,
                       shared, lock, pc, snapshot, api_call, terminal,
          stop_event, sleep_time>>

\* RuleEngine.enable_rule(rule_name) / disable_rule(rule_name)
SetEnabled(name, value) ==
    /\ \E k \in 1..Len(rules) : rule_name(rules[k]) = name
    /\ enabled' = set_enabled(enabled, rules, name, value)
    /\ new_events' = <<Event("INFO", IF value THEN "Enabled rule" ELSE "Disabled rule", {name})>>
    /\ writes' = <<>>
    /\ UNCHANGED <<now, mem, coils, input_logs, output_logs, timers, open, once,
                   input_data, active_rules, rules, trigger_count, pulsed, probed,
                   shared, lock, pc, snapshot, api_call, terminal,
          stop_event, sleep_time>>

----------------------------------------------------------------------------
(* Specifications.  Each lets the inputs change between ticks among a few   *)
(* input vectors; reads, writes and connects succeed.  Ticks are one or two *)
(* clock ticks apart.                                                       *)

Gaps == {1, 2}

\* emergency stop, operator selector, crate button: the C2->PALM move with its
\* delayed stop is reachable
Flips == {{}, {"E_Stop"}, {"E_Stop", "S2", "Klaar_Geweeg_Btn"},
          {"Manual_Select", "Auto_Select"}}

Envs == Env(Gaps, Flips, {DEFAULT_VERSION}, {TRUE}, {TRUE}, {TRUE}, {TRUE})

Scan == \E e \in Envs : now + e.dt <= MaxTime /\ Tick(e)

StopMotor2Timer == TimerFire(TRUE)

Next == Scan \/ StopMotor2Timer

Spec == Init /\ [][Next]_vars

\* motor trip alone
TripFlips == {{}, {"M1_Trip"}}

TripEnvs == Env(Gaps, TripFlips, {DEFAULT_VERSION}, {TRUE}, {TRUE}, {TRUE}, {TRUE})

ScanTrip == \E e \in TripEnvs : now + e.dt <= MaxTime /\ Tick(e)

SpecTrip == Init /\ [][ScanTrip]_vars

\* motor trip and emergency stop
SafetyFlips == {{}, {"M1_Trip"}, {"E_Stop"}, {"E_Stop", "M1_Trip"}}

SafetyEnvs == Env(Gaps, SafetyFlips, {DEFAULT_VERSION}, {TRUE}, {TRUE}, {TRUE}, {TRUE})

ScanSafety == \E e \in SafetyEnvs : now + e.dt <= MaxTime /\ Tick(e)

SpecSafety == Init /\ [][ScanSafety]_vars

\* heartbeat register, operator selector, motor trip, emergency stop; the ticks
\* are far enough apart for samples to leave the comms window
CommsGaps == {3, 8}

CommsFlips == {{}, {"Manual_Select", "Auto_Select"}, {"M1_Trip"}, {"E_Stop"}}

CommsEnvs == Env(CommsGaps, CommsFlips, {0, DEFAULT_VERSION}, {TRUE}, {TRUE}, {TRUE}, {TRUE})

ScanComms == \E e \in CommsEnvs : now + e.dt <= MaxCommsTime /\ Tick(e)

SpecComms == Init /\ [][ScanComms]_vars

\* crate button: bins on C2 and C3, presses seen by a poll and presses that
\* begin and end between two polls
ButtonGaps == {1}

ButtonFlips == {{}, {"S2"}, {"S2", "Klaar_Geweeg_Btn"}, {"S1", "S2"},
                {"S1", "S2", "Klaar_Geweeg_Btn"}}

Pulses == {{}, {"Klaar_Geweeg_Btn"}}

ButtonEnvs ==
    {[e EXCEPT !.pulse = p] :
        e \in Env(ButtonGaps, ButtonFlips, {DEFAULT_VERSION}, {TRUE}, {TRUE}, {TRUE}, {TRUE}),
        p \in Pulses}

\* a label that pulsed unseen reads false at the poll before and at the poll after
ScanButton ==
    \E e \in ButtonEnvs :
        /\ now + e.dt <= MaxTime
        /\ \A l \in e.pulse : ~Truthy(e.inp, l) /\ ~Truthy(input_data, l)
        /\ Tick(e)

NextButton == ScanButton \/ StopMotor2Timer

SpecButton == Init /\ [][NextButton]_vars

\* the engine by itself: three probe rules registered, each tick saying what
\* each of them does; rules are enabled and disabled between ticks
EngineRules == <<21, 22, 23>>

EngineGaps == {2}

InitEngine == InitWith(EngineRules)

EngineEnvs ==
    {[e EXCEPT !.probe = pr] :
        e \in Env(EngineGaps, {{}}, {DEFAULT_VERSION}, {TRUE}, {TRUE}, {TRUE}, {TRUE}),
        pr \in [ProbeRules -> ProbeOutcomes]}

ScanEngine == \E e \in EngineEnvs : now + e.dt <= MaxEngineTime /\ Tick(e)

EnableRule == \E i \in ProbeRules : SetEnabled(ProbeNames[i], TRUE)

DisableRule == \E i \in ProbeRules : SetEnabled(ProbeNames[i], FALSE)

NextEngine == ScanEngine \/ EnableRule \/ DisableRule

SpecEngine == InitEngine /\ [][NextEngine]_vars

\* bin moves: the sensors of conveyors 1 and 2 and the crate button; a tick
\* comes a poll interval after the previous one or, the loop held up, as
\* long after it as the start delay of a move; the Timer thread runs a
\* callback when it is due, so no tick comes later than a pending callback
MoveGaps == {1, C3_DELAY}

MoveFlips == {{}, {"S1"}, {"S2", "Klaar_Geweeg_Btn"}, {"S1", "S2", "Klaar_Geweeg_Btn"}}

MoveEnvs == Env(MoveGaps, MoveFlips, {DEFAULT_VERSION}, {TRUE}, {TRUE}, {TRUE}, {TRUE})

ScanMove ==
    \E e \in MoveEnvs :
        /\ now + e.dt <= MaxMoveTime
        /\ trigger_count[1] < MaxMovePolls
        /\ \A due \in timers : now + e.dt <= due
        /\ Tick(e)

NextMove == ScanMove \/ StopMotor2Timer

SpecMove == Init /\ [][NextMove]_vars

\* the polling thread, a reader thread (UI or web server) taking snapshots
\* and the Timer thread, interleaved: the polling thread polls, takes the
\* lock, publishes the data read, publishes the rule state and releases the
\* lock; the reader takes the lock, copies the fields and releases it
SnapshotGaps == {1}

SnapshotFlips == {{}, {"Manual_Select", "Auto_Select"}, {"S2", "Klaar_Geweeg_Btn"}}

SnapshotEnvs ==
    Env(SnapshotGaps, SnapshotFlips, {DEFAULT_VERSION}, {TRUE}, {TRUE}, {TRUE}, {TRUE})

ui_unchanged ==
    UNCHANGED <<now, mem, coils, input_logs, output_logs, timers, open, once,
                input_data, active_rules, new_events, writes, rules, enabled,
                trigger_count, pulsed, probed, api_call, terminal,
          stop_event, sleep_time>>

\* lines 109-146: the loop reads in_error_comms_mode under the lock, then
\* reads the terminals and evaluates the rules outside it
PollScan ==
    \E e \in SnapshotEnvs :
        /\ pc.poll = "read"
        /\ lock = "free"
        /\ now + e.dt <= MaxSnapshotTime
        /\ Poll(e)
        /\ pc' = [pc EXCEPT !.poll = "acquire"]
        /\ UNCHANGED <<shared, lock, snapshot, api_call, terminal,
          stop_event, sleep_time>>

\* line 149: "with self.state.lock:"
PollAcquire ==
    /\ pc.poll = "acquire"
    /\ acquire("poll")
    /\ pc' = [pc EXCEPT !.poll = "update_from_poll"]
    /\ UNCHANGED <<shared, snapshot>>
    /\ ui_unchanged

\* lines 151-152
PollUpdateFromPoll ==
    /\ pc.poll = "update_from_poll"
    /\ shared' = publish_poll(shared, input_data, output_data)
    /\ pc' = [pc EXCEPT !.poll = "update_rule_state"]
    /\ UNCHANGED <<lock, snapshot>>
    /\ ui_unchanged

\* lines 154-158, and the lock released at the end of the with block
PollUpdateRuleState ==
    /\ pc.poll = "update_rule_state"
    /\ shared' = update_rule_state(shared, mem, active_rules)
    /\ release
    /\ pc' = [pc EXCEPT !.poll = "read"]
    /\ UNCHANGED snapshot
    /\ ui_unchanged

\* get_snapshot: "with self.lock:"
ReaderAcquire ==
    /\ pc.reader = "idle"
    /\ acquire("reader")
    /\ pc' = [pc EXCEPT !.reader = "copy"]
    /\ UNCHANGED <<shared, snapshot>>
    /\ ui_unchanged

\* get_snapshot: the copies made and returned, the lock released
ReaderCopy ==
    /\ pc.reader = "copy"
    /\ snapshot' = get_snapshot(shared)
    /\ release
    /\ pc' = [pc EXCEPT !.reader = "idle"]
    /\ UNCHANGED shared
    /\ ui_unchanged

NextSnapshot ==
    \/ PollScan
    \/ PollAcquire
    \/ PollUpdateFromPoll
    \/ PollUpdateRuleState
    \/ ReaderAcquire
    \/ ReaderCopy
    \/ StopMotor2Timer

SpecSnapshot == Init /\ [][NextSnapshot]_vars

\* the label map by itself: get_address called with device names and labels
\* in several letter cases and with each reg_type
DeviceWords == {"INPUT", "OUTPUT", "input", "Output", "PLC"}

LabelWords == Words \ DeviceWords

RegTypes == {"None", "coils", "registers"}

io_unchanged ==
    UNCHANGED <<now, mem, coils, input_logs, output_logs, timers, open, once,
                input_data, active_rules, new_events, writes, rules, enabled,
                trigger_count, pulsed, probed, shared, lock, pc, snapshot,
          stop_event, sleep_time>>

GetAddress ==
    \E device \in DeviceWords, label \in LabelWords, reg_type \in RegTypes :
        /\ api_call' = [op |-> "get_address", device |-> device, label |-> label,
                        reg_type |-> reg_type, ret |-> get_address(device, label, reg_type)]
        /\ UNCHANGED terminal
        /\ io_unchanged

SpecMapping == Init /\ [][GetAddress]_vars

\* the mock output terminal by itself: Procon.set and Procon.get with the
\* labels of the output terminal, a label in small letters and a label the
\* map does not have; bools and ints are written
TerminalLabels == {"LED_GREEN", "MOTOR_2", "motor_2", "MOTOR_3", "LED_RED", "VERSION", "MOTOR_1"}

TerminalValues == {BoolValue(TRUE), BoolValue(FALSE), IntValue(0), IntValue(DEFAULT_VERSION)}

ProconSet ==
    \E label \in TerminalLabels, value \in TerminalValues :
        LET r == Procon_set(terminal, label, value)
        IN /\ terminal' = r.client
           /\ api_call' = [op |-> "set", label |-> label, value |-> value, ret |-> r.ret]
           /\ io_unchanged

ProconGet ==
    \E label \in TerminalLabels :
        /\ api_call' = [op |-> "get", label |-> label, ret |-> Procon_get(terminal, label)]
        /\ UNCHANGED terminal
        /\ io_unchanged

NextTerminal == ProconSet \/ ProconGet

SpecTerminal == Init /\ [][NextTerminal]_vars

\* the output history by itself: LogManager.log_output with the maps
\* Procon.get_all can return (no VERSION when the answer is short, 0 when
\* the read fails) and LogManager.check_comms_health asked at any time
MaxHealthTime == 7

HealthGaps == {1, 3}

HealthData == {EmptyMap, [r \in {"VERSION"} |-> 0], [r \in {"VERSION"} |-> DEFAULT_VERSION]}

HealthTimeouts == {0, 2, 5}

health_unchanged_but_terminal ==
    UNCHANGED <<mem, coils, input_logs, timers, open, once, input_data, active_rules,
                new_events, writes, rules, enabled, trigger_count, pulsed, probed,
                shared, lock, pc, snapshot,
          stop_event, sleep_time>>

health_unchanged == health_unchanged_but_terminal /\ UNCHANGED terminal

LogOutput ==
    \E dt \in HealthGaps, data \in HealthData :
        /\ now + dt <= MaxHealthTime
        /\ now' = now + dt
        /\ output_logs' = log_append(output_logs, LogEntry(now', data))
        /\ api_call' = NoCall
        /\ health_unchanged

CheckCommsHealth ==
    \E dt \in HealthGaps, timeout_seconds \in HealthTimeouts :
        /\ now + dt <= MaxHealthTime
        /\ now' = now + dt
        /\ api_call' = [op |-> "check_comms_health", timeout_seconds |-> timeout_seconds,
                        ret |-> check_comms_health(output_logs, now', timeout_seconds)]
        /\ UNCHANGED output_logs
        /\ health_unchanged

NextHealth == LogOutput \/ CheckCommsHealth

SpecHealth == Init /\ [][NextHealth]_vars

\* writes that fail: a bin is moved from C2, the selector is turned, and
\* the output terminal refuses the writes of any scan
MaxWriteTime == 7

WriteFlips == {{}, {"S2", "Klaar_Geweeg_Btn"}, {"Manual_Select", "Auto_Select"},
               {"S2", "Manual_Select", "Auto_Select"}}

WriteEnvs == Env({1}, WriteFlips, {DEFAULT_VERSION}, {TRUE}, {TRUE}, {TRUE, FALSE}, {TRUE})

ScanWrite == \E e \in WriteEnvs : now + e.dt <= MaxWriteTime /\ Tick(e)

NextWrite == ScanWrite \/ StopMotor2Timer

SpecWrite == Init /\ [][NextWrite]_vars

\* the comms lamp on the mock output terminal: the end of
\* CommsHealthCheckRule.action, procon.get('LED_GREEN') and procon.set
\* going to the MockModbusClient, current_led being the value read back;
\* the client afterwards and whether a write was made
CommsHealthCheck_led_mock(client, comms_healthy, current_led) ==
    IF comms_healthy /\ current_led # BoolValue(TRUE)
    THEN [client |-> Procon_set(client, "LED_GREEN", BoolValue(TRUE)).client, wrote |-> TRUE]
    ELSE IF ~comms_healthy /\ current_led # BoolValue(FALSE)
    THEN [client |-> Procon_set(client, "LED_GREEN", BoolValue(FALSE)).client, wrote |-> TRUE]
    ELSE [client |-> client, wrote |-> FALSE]

MaxLedTime == 5

CommsLedMock ==
    \E dt \in HealthGaps :
        /\ now + dt <= MaxLedTime
        /\ now' = now + dt
        /\ \E comms_healthy \in {check_comms_health(output_logs, now + dt, COMMS_TIMEOUT)},
              current_led \in {Procon_get(terminal, "LED_GREEN")} :
               \E r \in {CommsHealthCheck_led_mock(terminal, comms_healthy, current_led)} :
                   /\ terminal' = r.client
                   /\ api_call' = [op |-> "led", comms_healthy |-> comms_healthy,
                                   current_led |-> current_led, wrote |-> r.wrote]
        /\ UNCHANGED output_logs
        /\ health_unchanged_but_terminal

LogOutputLed == now < MaxLedTime /\ LogOutput

NextLed == LogOutputLed \/ CommsLedMock

SpecLed == Init /\ [][NextLed]_vars

----------------------------------------------------------------------------
(* The bin sensor S1 with the emergency stop and the operator's reset: the  *)
(* C3 timer through starts, resets and mem.clear().                         *)

C3TimerFlips == {{}, {"S1"}, {"E_Stop"}, {"S1", "E_Stop"},
                 {"S1", "Manual_Select", "Auto_Select"}}

C3TimerEnvs == Env(Gaps, C3TimerFlips, {DEFAULT_VERSION}, {TRUE}, {TRUE}, {TRUE}, {TRUE})

ScanC3Timer == \E e \in C3TimerEnvs : now + e.dt <= MaxTime /\ Tick(e)

SpecC3Timer == Init /\ [][ScanC3Timer]_vars

----------------------------------------------------------------------------
(* PollingThread.run and PollingThread.stop: the loop top, the tick, the    *)
(* wait between ticks, and the stop event set by another thread at any      *)
(* moment. The wait is counted in slices of the poll interval.              *)

MaxStopTime == 5
MaxSleep == 2

StopGaps == {1, 2}

StopEnvs == Env(StopGaps, {{}, {"S1"}}, {DEFAULT_VERSION}, {TRUE}, {TRUE}, {TRUE}, {TRUE})

stop_unchanged ==
    UNCHANGED <<now, mem, coils, input_logs, output_logs, timers, open, once,
                input_data, active_rules, new_events, writes, rules, enabled,
                trigger_count, pulsed, probed, shared, lock, snapshot, api_call, terminal>>

\* a wait that sleeps its whole timeout: time.sleep(timeout)
Event_wait_returns_after_timeout(event, timeout) == timeout = 0

\* threading.Event.wait(timeout) returns: the event is set or the timeout
\* has run out
Event_wait_returns(event, timeout) == event \/ timeout = 0

\* stop(): self._stop_event.set()
PollingThreadStop ==
    /\ ~stop_event
    /\ stop_event' = TRUE
    /\ UNCHANGED <<pc, sleep_time>>
    /\ stop_unchanged

\* "while not self._stop_event.is_set():" and, after the loop, the thread's
\* last log line
RunWhile ==
    /\ pc.poll = "read"
    /\ IF stop_event
       THEN pc' = [pc EXCEPT !.poll = "stopped"]
       ELSE /\ \A dt \in StopGaps : now + dt <= MaxStopTime
            /\ pc' = [pc EXCEPT !.poll = "tick"]
    /\ UNCHANGED <<stop_event, sleep_time>>
    /\ stop_unchanged

\* the body of the loop up to "sleep_time = max(0, self.poll_interval -
\* elapsed)": the reads, the rules, the shared state; the wait is skipped
\* when nothing is left of the interval
RunTick ==
    \E e \in StopEnvs, t \in 0..MaxSleep :
        /\ pc.poll = "tick"
        /\ Poll(e)
        /\ shared' = update_rule_state(publish_poll(shared, input_data', output_data'),
                                       mem', active_rules')
        /\ sleep_time' = t
        /\ pc' = [pc EXCEPT !.poll = IF t > 0 THEN "wait" ELSE "read"]
        /\ UNCHANGED <<lock, snapshot, api_call, terminal, stop_event>>

\* "self._stop_event.wait(sleep_time)": a slice of the timeout passes, or the
\* wait returns
RunWait ==
    /\ pc.poll = "wait"
    /\ IF Event_wait_returns(stop_event, sleep_time)
       THEN pc' = [pc EXCEPT !.poll = "read"] /\ UNCHANGED sleep_time
       ELSE sleep_time' = sleep_time - 1 /\ UNCHANGED pc
    /\ UNCHANGED stop_event
    /\ stop_unchanged

NextStop == PollingThreadStop \/ RunWhile \/ RunTick \/ RunWait

\* the tick in progress returns: the thread leaves the body of the loop
TickReturns ==
    pc.poll = "tick" /\ \E p \in {"wait", "read"} : pc' = [pc EXCEPT !.poll = p]

\* the polling thread is scheduled and the tick it is in returns
SpecStop ==
    Init /\ [][NextStop]_vars
         /\ WF_vars(RunWhile) /\ WF_pc(TickReturns) /\ WF_vars(RunWait)

----------------------------------------------------------------------------
(* Vocabulary of the properties *)

\* the step is a scan: the tick appended a sample to the input history
ScanStep == input_logs' # input_logs

Triggered(names, name) == name \in Range(names)

\* label has read value in every sample of logs from some sample at least d
\* ticks older than the newest one up to the newest one
SampledFor(logs, label, value, d) ==
    /\ Len(logs) > 0
    /\ \E i \in 1..Len(logs) :
           /\ logs[i].timestamp <= logs[Len(logs)].timestamp - d
           /\ \A j \in i..Len(logs) : Is(logs[j].data, label, value)

\* every heartbeat sample of the last timeout ticks of logs is 0
HeartbeatDead(logs, timeout) ==
    /\ Len(logs) > 0
    /\ \A i \in 1..Len(logs) :
           logs[i].timestamp >= logs[Len(logs)].timestamp - timeout
               => Is(logs[i].data, "VERSION", 0)

\* the events hold the entry set_mode logs on a change of mode into m
Entered(events, m) ==
    \E old_mode \in (Modes \cup {"None"}) \ {m} :
        Event("INFO", ModeMsg(old_mode, m), {}) \in Range(events)

EnteredFrom(events, old_mode, m) == Event("INFO", ModeMsg(old_mode, m), {}) \in Range(events)

MotorsCommandedOff(wr) ==
    <<"MOTOR_2", FALSE>> \in Range(wr) /\ <<"MOTOR_3", FALSE>> \in Range(wr)

MotorsOff(c) == ~c["MOTOR_2"] /\ ~c["MOTOR_3"]

MovingModes == {"MOVING_C3_TO_C2", "MOVING_BOTH", "MOVING_C2_TO_PALM"}

TripLabels == {"M1_Trip", "M2_Trip", "DHLM_Trip_Signal"}

Closed == [d \in {"INPUT", "OUTPUT"} |-> FALSE]

\* the newest heartbeat sample of logs is non-zero
NewestAlive(logs) == Len(logs) > 0 /\ ~Is(logs[Len(logs)].data, "VERSION", 0)

----------------------------------------------------------------------------
(* Emergency stop *)

\* C1: after any scan in which the Emergency Stop rule triggered (its
\* condition was true), MOTOR_2 and MOTOR_3 are both off, whatever earlier
\* rules of that scan wrote.  Writes succeed in Spec.
EStopOverridesMotors ==
    Triggered(active_rules, "Emergency Stop") => MotorsOff(coils)

\* the Emergency Stop rule triggered in a scan in which an earlier rule had
\* switched MOTOR_2 on
EStopOverridesMotors_Witness ==
    /\ Triggered(active_rules, "Emergency Stop")
    /\ <<"MOTOR_2", TRUE>> \in Range(writes)
    /\ MotorsOff(coils)

\* C2: once E_Stop has read false in every sample over a full hold (the
\* history before the scan already spans HOLD_SECONDS of false samples) and
\* reads false again, the scan ends in ERROR_ESTOP with both motors off and
\* no memory key but _MODE; and whenever the mode is ERROR_ESTOP the memory
\* holds no other key.
EStopHoldLatches ==
    [][/\ (mode(mem') = "ERROR_ESTOP" => DOMAIN mem' \subseteq {"_MODE"})
       /\ (/\ ScanStep
           /\ SampledFor(input_logs, "E_Stop", FALSE, HOLD_SECONDS)
           /\ Is(input_data', "E_Stop", FALSE)
           => /\ mode(mem') = "ERROR_ESTOP"
              /\ MotorsOff(coils')
              /\ DOMAIN mem' \subseteq {"_MODE"})]_vars

\* C3: the mode leaves ERROR_ESTOP only in a scan that reads E_Stop and
\* Manual_Select both true.
EStopIsLatch ==
    [][mode(mem) = "ERROR_ESTOP" /\ mode(mem') # "ERROR_ESTOP"
       => /\ ScanStep
          /\ Truthy(input_data', "E_Stop")
          /\ Truthy(input_data', "Manual_Select")]_vars

\* C4: a scan that starts in ERROR_ESTOP and reads E_Stop and Manual_Select
\* true ends with _MODE unset.
EStopResetUnsetsMode ==
    [][/\ ScanStep
       /\ mode(mem) = "ERROR_ESTOP"
       /\ Truthy(input_data', "E_Stop")
       /\ Truthy(input_data', "Manual_Select")
       => mode(mem') = "None"]_vars

----------------------------------------------------------------------------
(* Comms failure and recovery *)

CommsRecoveryNeedsOperator ==
    [][/\ mode(mem) \in {"ERROR_COMMS", "ERROR_COMMS_ACK"}
       /\ mode(mem') \notin {"ERROR_COMMS", "ERROR_COMMS_ACK", "ERROR_ESTOP"}
       => /\ ScanStep
          /\ Triggered(active_rules', "Comms Reset")
          /\ Truthy(input_data', "Auto_Select")
          /\ ~HeartbeatDead(output_logs', COMMS_TIMEOUT)]_vars

\* C7: a scan that starts in ERROR_COMMS and reads Manual_Select true moves
\* the mode to ERROR_COMMS_ACK; a scan that starts in ERROR_COMMS_ACK and
\* reads Auto_Select true moves it to READY when the newest heartbeat sample
\* is non-zero and back to ERROR_COMMS when every sample of the last
\* COMMS_TIMEOUT is 0; with the other inputs at their safe values the scan
\* ends in that mode.
CommsAckThenReset ==
    [][ScanStep =>
       /\ (mode(mem) = "ERROR_COMMS" /\ Truthy(input_data', "Manual_Select")
           => EnteredFrom(new_events', "ERROR_COMMS", "ERROR_COMMS_ACK"))
       /\ (/\ mode(mem) = "ERROR_COMMS_ACK"
           /\ Truthy(input_data', "Auto_Select")
           /\ NewestAlive(output_logs')
           => /\ EnteredFrom(new_events', "ERROR_COMMS_ACK", "READY")
              /\ (input_data' = SafeInputs => mode(mem') = "READY"))
       /\ (/\ mode(mem) = "ERROR_COMMS_ACK"
           /\ Truthy(input_data', "Auto_Select")
           /\ HeartbeatDead(output_logs', COMMS_TIMEOUT)
           => /\ EnteredFrom(new_events', "ERROR_COMMS_ACK", "ERROR_COMMS")
              /\ (input_data' = SafeInputs => mode(mem') = "ERROR_COMMS"))]_vars

\* the operator acknowledged and reset a comms failure: READY was entered
\* from ERROR_COMMS_ACK
CommsAckThenReset_Witness ==
    mode(mem) = "READY" /\ EnteredFrom(new_events, "ERROR_COMMS_ACK", "READY")

\* C8 as stated: every scan in which the mode enters ERROR_ESTOP, ERROR_COMMS
\* or ERROR_COMMS_ACK issues a write of false to MOTOR_2 and to MOTOR_3.
ErrorEntryStopsMotors ==
    [][/\ ScanStep
       /\ \E m \in {"ERROR_ESTOP", "ERROR_COMMS", "ERROR_COMMS_ACK"} : Entered(new_events', m)
       => MotorsCommandedOff(writes')]_vars

\* C8 amended: every scan in which the mode enters ERROR_ESTOP, or enters
\* ERROR_COMMS from a mode other than ERROR_COMMS_ACK, issues a write of false
\* to MOTOR_2 and to MOTOR_3.
FailureEntryStopsMotors ==
    [][/\ ScanStep
       /\ \/ Entered(new_events', "ERROR_ESTOP")
          \/ \E old_mode \in (Modes \cup {"None"}) \ {"ERROR_COMMS", "ERROR_COMMS_ACK"} :
                 EnteredFrom(new_events', old_mode, "ERROR_COMMS")
       => MotorsCommandedOff(writes')]_vars

\* one scan entered ERROR_COMMS from READY and then ERROR_ESTOP
FailureEntryStopsMotors_Witness ==
    /\ EnteredFrom(new_events, "READY", "ERROR_COMMS")
    /\ Entered(new_events, "ERROR_ESTOP")
    /\ MotorsCommandedOff(writes)

----------------------------------------------------------------------------
(* Trip debounce *)

\* C9: the Clear Ready State rule triggers, and the mode becomes
\* ERROR_SAFETY, only in a scan at which some trip input has read false in
\* every sample of the preceding HOLD_SECONDS, those samples reaching back
\* the whole HOLD_SECONDS; a shorter pulse changes nothing.
TripDebounce ==
    [][\/ mode(mem') = "ERROR_SAFETY" /\ mode(mem) # "ERROR_SAFETY"
       \/ ScanStep /\ Triggered(active_rules', "Clear Ready State")
       => /\ ScanStep
          /\ \E l \in TripLabels : SampledFor(input_logs', l, FALSE, HOLD_SECONDS)]_vars

\* a held M1_Trip took the machine from READY to ERROR_SAFETY
TripDebounce_Witness ==
    /\ mode(mem) = "ERROR_SAFETY"
    /\ EnteredFrom(new_events, "READY", "ERROR_SAFETY")
    /\ SampledFor(input_logs, "M1_Trip", FALSE, HOLD_SECONDS)

\* C10: a scan that starts in READY or a MOVING mode, at which M1_Trip has
\* read false in every sample for more than HOLD_SECONDS, ends in
\* ERROR_SAFETY, commands both motors off and logs a WARNING naming M1_Trip.
HeldTripRaisesErrorSafety ==
    [][/\ ScanStep
       /\ mode(mem) \in {"READY"} \cup MovingModes
       /\ SampledFor(input_logs', "M1_Trip", FALSE, HOLD_SECONDS + 1)
       => /\ mode(mem') = "ERROR_SAFETY"
          /\ MotorsCommandedOff(writes')
          /\ \E ev \in Range(new_events') :
                 ev.level = "WARNING" /\ "M1_Trip" \in ev.names]_vars

----------------------------------------------------------------------------
(* Crate button *)

\* C11: a scan that starts in READY before which Klaar_Geweeg_Btn pulsed
\* between two polls (read false by both), with a bin on C2 (S2 false) and
\* PALM_Run_Signal true, finds rising_edge('Klaar_Geweeg_Btn') true and
\* triggers Initiate Move C2->PALM (S1 true) or Initiate Move Both (S1 false).
BriefPressStartsMove ==
    [][/\ ScanStep
       /\ "Klaar_Geweeg_Btn" \in pulsed'
       /\ mode(mem) = "READY"
       /\ input_data' \in {Flip({"S2"}), Flip({"S1", "S2"})}
       => /\ rising_edge(input_logs', now', "Klaar_Geweeg_Btn")
          /\ \/ Triggered(active_rules', "Initiate Move C2->PALM")
             \/ Triggered(active_rules', "Initiate Move Both")]_vars

----------------------------------------------------------------------------
(* Start-up *)

ErrorModes == {"ERROR_SAFETY", "ERROR_ESTOP", "ERROR_COMMS", "ERROR_COMMS_ACK"}

\* every poll since construction is still in the history, read the safe
\* defaults and a non-zero VERSION
BootedOnDefaults ==
    /\ Len(input_logs) \in 1..(MaxEntries - 1)
    /\ \A i \in 1..Len(input_logs) : input_logs[i].data = SafeInputs
    /\ \A i \in 1..Len(output_logs) : ~Is(output_logs[i].data, "VERSION", 0)

\* C12: after every scan of a cold boot on the safe defaults with a live
\* heartbeat the mode is READY, MOTOR_2 and MOTOR_3 are off and LED_GREEN is
\* on, and the scan entered no error mode.
ColdBootReachesReady ==
    BootedOnDefaults
    => /\ mode(mem) = "READY"
       /\ MotorsOff(coils)
       /\ coils["LED_GREEN"]
       /\ \A m \in ErrorModes : ~Entered(new_events, m)

\* two seconds after construction, three polls on the defaults
ColdBootReachesReady_Witness ==
    /\ BootedOnDefaults
    /\ Len(input_logs) = 3
    /\ now >= 1 + 2 * TicksPerSecond
    /\ mode(mem) = "READY"
    /\ coils["LED_GREEN"]

----------------------------------------------------------------------------
(* The rule engine *)

\* the rule raised in the tick: from its condition, or from its action
Raised(outcome) ==
    outcome.cond = "raise" \/ (outcome.cond = "true" /\ outcome.act = "raise")

ErrorLogged(events, name) == Event("ERROR", "Error in rule", {name}) \in Range(events)

\* C13: in every scan, each enabled rule that raises, from its condition or
\* from its action, gets an ERROR event carrying its name, no other rule
\* gets one, and every enabled rule whose condition is true is triggered,
\* whichever rules before it raised; the scan completes with the rule list
\* and the enabled flags as they were.
RuleErrorIsContained ==
    [][ScanStep =>
       /\ \A i \in Range(rules) :
              /\ ErrorLogged(new_events', rule_name(i)) <=> (enabled[i] /\ Raised(probed'[i]))
              /\ Triggered(active_rules', rule_name(i))
                     <=> (enabled[i] /\ probed'[i].cond = "true")
       /\ rules' = rules
       /\ enabled' = enabled]_vars

\* a scan in which the condition of Probe 1 raised and Probe 3 still
\* triggered, run after a scan in which the action of Probe 2 had raised
\* half way
RuleErrorIsContained_Witness ==
    /\ rules = EngineRules
    /\ probed[21].cond = "raise"
    /\ ErrorLogged(new_events, "Probe 1")
    /\ ~Triggered(active_rules, "Probe 2")
    /\ Is(mem, "Probe 2", "started")
    /\ Triggered(active_rules, "Probe 3")
    /\ Is(mem, "Probe 3", "done")

\* position of a rule in the registration order of setup_rules
RuleIndex(name) == CHOOSE i \in 1..Len(RuleNames) : RuleNames[i] = name

\* the value of the last write to coil c among the writes wr
LastWrite(wr, c) ==
    LET k == CHOOSE k \in 1..Len(wr) :
                 wr[k][1] = c /\ \A j \in (k + 1)..Len(wr) : wr[j][1] # c
    IN wr[k][2]

ModePairs == {p \in (Modes \cup {"None"}) \X (Modes \cup {"None"}) : p[1] # p[2]}

\* the entry set_mode logs for each change of mode
ModeEvent == [p \in ModePairs |-> Event("INFO", ModeMsg(p[1], p[2]), {})]

ModeEvents == {ModeEvent[p] : p \in ModePairs}

IsModeEvent(ev) == ev \in ModeEvents

\* <<old mode, new mode>> of an entry logged by set_mode
ModeChange(ev) == CHOOSE p \in ModePairs : ModeEvent[p] = ev

\* C14: in every scan the triggered rules are listed in registration order;
\* every change of mode starts from the mode the previous change of the same
\* scan left (from the mode before the scan for the first one; from the
\* unset mode when the emergency stop has just cleared the memory); the mode
\* after the scan is the one set last; and every coil written in the step
\* holds the value written last.
LateWins ==
    [][/\ \A c \in OutputCoils :
              (\E k \in 1..Len(writes') : writes'[k][1] = c) => coils'[c] = LastWrite(writes', c)
       /\ ScanStep =>
              LET evs == SelectSeq(new_events', IsModeEvent)
                  ch == [k \in 1..Len(evs) |-> ModeChange(evs[k])]
                  from(k) == ch[k][1]
                  to(k) == ch[k][2]
                  cleared(k) == from(k) = "None" /\ to(k) = "ERROR_ESTOP"
              IN /\ \A a, b \in 1..Len(active_rules') :
                        a < b => RuleIndex(active_rules'[a]) < RuleIndex(active_rules'[b])
                 /\ Len(ch) = 0 => mode(mem') = mode(mem)
                 /\ Len(ch) > 0 => /\ to(Len(ch)) = mode(mem')
                                   /\ from(1) = mode(mem) \/ cleared(1)
                 /\ \A k \in 1..(Len(ch) - 1) : from(k + 1) = to(k) \/ cleared(k + 1)]_vars

\* a scan in which Initiate Move C2->PALM switched MOTOR_2 on and set
\* MOVING_C2_TO_PALM, and the Emergency Stop rule, later in the order, saw
\* that mode, switched MOTOR_2 off and set ERROR_ESTOP
LateWins_Witness ==
    /\ <<"MOTOR_2", TRUE>> \in Range(writes)
    /\ ~coils["MOTOR_2"]
    /\ EnteredFrom(new_events, "READY", "MOVING_C2_TO_PALM")
    /\ Triggered(active_rules, "Initiate Move C2->PALM")
    /\ Triggered(active_rules, "Emergency Stop")
    /\ mode(mem) = "ERROR_ESTOP"

\* C15: after every scan active_rules is exactly the names, in rule order, of
\* the enabled rules whose condition was true in this scan, whatever it held
\* before; a disabled rule is not evaluated (no trigger, no error, no count,
\* its memory untouched); and a scan in which no rule triggers leaves the
\* machine memory as it was.
ActiveRulesAreThisScan ==
    [][ScanStep =>
       LET on(i) == enabled[i] /\ probed'[i].cond = "true"
           sel == SelectSeq(rules, on)
       IN /\ active_rules' = [k \in 1..Len(sel) |-> rule_name(sel[k])]
          /\ Len(sel) = 0 => mem' = mem
          /\ \A i \in Range(rules) :
                 ~enabled[i] => /\ ~ErrorLogged(new_events', rule_name(i))
                                /\ trigger_count'[i] = trigger_count[i]
                                /\ get(mem', rule_name(i)) = get(mem, rule_name(i))]_vars

\* Probe 2 triggered in an earlier scan and is disabled now, its condition
\* true: the latest scan lists Probe 1 and Probe 3 only
ActiveRulesAreThisScan_Witness ==
    /\ rules = EngineRules
    /\ ~enabled[22]
    /\ probed[22].cond = "true"
    /\ Is(mem, "Probe 2", "done")
    /\ active_rules = <<"Probe 1", "Probe 3">>

----------------------------------------------------------------------------
(* Machine memory *)

TriggerCountCountsActions ==
    [][\A i \in Range(rules) :
          trigger_count'[i] =
              trigger_count[i]
                  + (IF ScanStep /\ enabled[i] /\ probed'[i].cond = "true" THEN 1 ELSE 0)]_vars

\* Probe 2 has triggered in two scans, its action raising in the latest one;
\* Probe 1, whose condition raised, has not been counted
TriggerCountCountsActions_Witness ==
    /\ rules = EngineRules
    /\ trigger_count[22] = 2
    /\ probed[22] = [cond |-> "true", act |-> "raise"]
    /\ ErrorLogged(new_events, "Probe 2")
    /\ probed[21].cond = "raise"
    /\ trigger_count[21] = 0

----------------------------------------------------------------------------
(* History and the queries on it *)

\* logs_after is logs with one entry appended, the oldest entry dropped if
\* logs was full
AppendedTo(logs, logs_after) ==
    /\ Len(logs_after) > 0
    /\ LET kept == IF Len(logs) < MaxEntries THEN logs ELSE Tail(logs)
       IN logs_after = Append(kept, logs_after[Len(logs_after)])

NonDecreasing(logs) ==
    \A i, j \in 1..Len(logs) : i <= j => logs[i].timestamp <= logs[j].timestamp

\* the polls made so far: the comms rule triggers in every scan
Polls == trigger_count[1]

EdgeWindows == {default_edge_window_ms, 2 * default_edge_window_ms}

HoldWindows == {HOLD_SECONDS, 2 * HOLD_SECONDS}

\* sample i of logs lies in [t - window_ms, t]
InEdgeWindow(logs, i, t, window_ms) ==
    /\ logs[i].timestamp * 1000 >= t * 1000 - window_ms * TicksPerSecond
    /\ logs[i].timestamp <= t

\* C19: whenever the edge query is true for a label, an edge type and a
\* window, the input history holds two consecutive samples, both inside the
\* window, the earlier False and the later True for a rising edge, the
\* earlier True and the later False for a falling edge; with fewer than two
\* samples inside the window the query is false.
EdgeSoundness ==
    \A l \in InputLabels, w \in EdgeWindows, edge_type \in {"rising", "falling"} :
        LET inside == {i \in 1..Len(input_logs) : InEdgeWindow(input_logs, i, now, w)}
            first == (edge_type = "falling")
        IN /\ detect_edge(input_logs, now, l, edge_type, w)
              => \E i \in inside :
                     /\ i + 1 \in inside
                     /\ Is(input_logs[i].data, l, first)
                     /\ Is(input_logs[i + 1].data, l, ~first)
           /\ Cardinality(inside) < 2 => ~detect_edge(input_logs, now, l, edge_type, w)

\* the press of the crate button was seen as a rising edge and started a move
\* from a history that also holds an older release of the button
EdgeSoundness_Witness ==
    /\ rising_edge(input_logs, now, "Klaar_Geweeg_Btn")
    /\ Triggered(active_rules, "Initiate Move C2->PALM")
    /\ \E i \in 1..(Len(input_logs) - 1) :
           /\ Is(input_logs[i].data, "Klaar_Geweeg_Btn", TRUE)
           /\ Is(input_logs[i + 1].data, "Klaar_Geweeg_Btn", FALSE)
           /\ ~detect_edge(input_logs, now, "Klaar_Geweeg_Btn", "falling", default_edge_window_ms)

\* C20: whenever the hold query is true for a label, a value and a hold
\* time, every input sample with a timestamp in [now - hold, now] has that
\* value and some sample is as old as now - hold or older; with fewer than
\* two samples, or with no sample that old, the query is false.
HoldSoundness ==
    \A l \in InputLabels, v \in BOOLEAN, h \in HoldWindows :
        LET reaches_back == \E i \in 1..Len(input_logs) : input_logs[i].timestamp <= now - h
        IN /\ extended_hold(input_logs, now, l, v, h)
              => /\ \A i \in 1..Len(input_logs) :
                        (input_logs[i].timestamp >= now - h /\ input_logs[i].timestamp <= now)
                            => Is(input_logs[i].data, l, v)
                 /\ reaches_back
           /\ (Len(input_logs) < 2 \/ ~reaches_back) => ~extended_hold(input_logs, now, l, v, h)

\* the emergency stop was held for the hold time and the rule triggered
HoldSoundness_Witness ==
    /\ extended_hold(input_logs, now, "E_Stop", FALSE, HOLD_SECONDS)
    /\ Triggered(active_rules, "Emergency Stop")
    /\ mode(mem) = "ERROR_ESTOP"

\* timeouts the comms query is asked with, in ticks, and the times after the
\* latest poll at which it is asked
Timeouts == 0..(2 * COMMS_TIMEOUT)

QueryDelays == {0, HOLD_SECONDS, COMMS_TIMEOUT + 1}

\* C21: for the output history of any reachable state and any current time,
\* if the comms query is true with timeout t1 it is true with every timeout
\* t2 >= t1.
CommsHealthMonotone ==
    \A d \in QueryDelays :
        LET healthy == {w \in Timeouts : check_comms_health(output_logs, now + d, w)}
        IN \A t1 \in healthy, t2 \in Timeouts : t1 <= t2 => t2 \in healthy

\* the newest heartbeat sample is 0 and an older one is not: the query is
\* false with a timeout that covers the newest sample only, true with one
\* that reaches the older sample and true with every longer one
CommsHealthMonotone_Witness ==
    /\ Len(output_logs) >= 2
    /\ Is(output_logs[Len(output_logs)].data, "VERSION", 0)
    /\ ~check_comms_health(output_logs, now, 0)
    /\ \E t1 \in Timeouts :
           /\ t1 < COMMS_TIMEOUT
           /\ ~check_comms_health(output_logs, now, t1 - 1)
           /\ check_comms_health(output_logs, now, t1)
           /\ check_comms_health(output_logs, now, COMMS_TIMEOUT)

----------------------------------------------------------------------------
(* The label map *)

\* the entries of MODBUS_MAP: <<device, kind, address>>
MapEntries ==
    {en \in (DOMAIN MODBUS_MAP) \X {"coils", "registers"} \X (0..(Len(MODBUS_MAP.INPUT.coils) - 1)) :
        en[3] < Len(MODBUS_MAP[en[1]][en[2]])}

EntryLabel(en) == MODBUS_MAP[en[1]][en[2]][en[3] + 1]

\* the same word up to the case of its letters
SameWord(w1, w2) == upper(w1) = upper(w2)

\* C22: get_address(device, label) returns the (address, kind) of the entry
\* of that device whose label is the given one up to letter case, whatever
\* the case of the device name; with a reg_type it does so for the entries of
\* that kind only; it returns (None, None) when the device is not in the map
\* or has no such label; and no two entries of one device carry the same
\* label, so the entry is unique.
LabelBijection ==
    /\ \A e1, e2 \in MapEntries :
           (e1[1] = e2[1] /\ SameWord(EntryLabel(e1), EntryLabel(e2))) => e1 = e2
    /\ api_call.op = "get_address" =>
           LET hits == {en \in MapEntries :
                           /\ en[1] = upper(api_call.device)
                           /\ SameWord(EntryLabel(en), api_call.label)
                           /\ api_call.reg_type \in {"None", en[2]}}
           IN /\ \A en \in hits : api_call.ret = <<en[3], en[2]>>
              /\ hits = {} => api_call.ret = NotFound

\* the register VERSION of the output terminal looked up in small letters,
\* with the device name in mixed case and no reg_type
LabelBijection_Witness ==
    /\ api_call.op = "get_address"
    /\ api_call.device = "Output"
    /\ api_call.label = "version"
    /\ api_call.reg_type = "None"
    /\ api_call.ret = <<0, "registers">>

----------------------------------------------------------------------------
(* The mock terminal *)

\* the step is a successful Procon.set of value to the label l
WriteTo(l, value) ==
    /\ api_call'.op = "set"
    /\ SameWord(api_call'.label, l)
    /\ api_call'.value = value
    /\ api_call'.ret

\* C23: on the mock output terminal a successful set of v to MOTOR_2,
\* MOTOR_3, LED_GREEN, LED_RED or VERSION is followed by get returning v,
\* and get keeps returning the same value over every step that is not a
\* successful set to that label.
ReadAfterWrite ==
    [][\A l \in {"MOTOR_2", "MOTOR_3", "LED_GREEN", "LED_RED", "VERSION"} :
          IF \E v \in TerminalValues : WriteTo(l, v)
          THEN Procon_get(terminal', l) = api_call'.value
          ELSE Procon_get(terminal', l) = Procon_get(terminal, l)]_vars

----------------------------------------------------------------------------
(* The shared state *)

\* the step is a get_snapshot returning
SnapshotStep == pc.reader = "copy" /\ pc'.reader = "idle"

\* the polling thread is inside its publication
Publishing == pc.poll \in {"update_from_poll", "update_rule_state"}

\* C24: every snapshot returned is what one completed publication left: it
\* is taken while the polling thread is not inside its publication, its
\* input and output data and its rule state and active rules were published
\* by the same pass of the loop, in_error_comms_mode is the one derived from
\* its rule state, and its rule state is the published one with
\* KLAAR_GEWEEG added.
SnapshotIsOneScan ==
    [][SnapshotStep =>
          /\ ~Publishing
          /\ snapshot'.input_heartbeat = snapshot'.rule_updates
          /\ snapshot'.in_error_comms_mode
                 = (mode(snapshot'.rule_state) \in {"ERROR_COMMS", "ERROR_COMMS_ACK"})
          /\ snapshot'.input_data = shared.input_data
          /\ snapshot'.output_data = shared.output_data
          /\ snapshot'.active_rules = shared.active_rules
          /\ \A k \in DOMAIN shared.rule_state : Is(snapshot'.rule_state, k, shared.rule_state[k])
          /\ DOMAIN snapshot'.rule_state = DOMAIN shared.rule_state \cup {"KLAAR_GEWEEG"}]_vars

\* a snapshot of the second pass (mode MANUAL, published) taken after the
\* third pass has polled and evaluated (mode READY) and before it publishes
SnapshotIsOneScan_Witness ==
    /\ snapshot.taken
    /\ snapshot.input_heartbeat = 2
    /\ snapshot.rule_updates = 2
    /\ mode(snapshot.rule_state) = "MANUAL"
    /\ Truthy(snapshot.input_data, "Manual_Select")
    /\ mode(mem) = "READY"
    /\ pc.poll = "acquire"

----------------------------------------------------------------------------
(* Threads *)

\* C25: machine memory (the mode included) and the output coils change only
\* in a step of the polling thread that is a scan; no other thread changes
\* them, whether the polling thread is inside a pass of its loop or not.
RulesRunOnPollingThread ==
    [][(mem' # mem \/ coils' # coils) => (ScanStep /\ pc.poll = "read")]_vars

----------------------------------------------------------------------------
(* The delayed stop of MOTOR_2 *)

\* the step is the Timer thread running stop_motor_2
TimerStep == ~ScanStep /\ timers' # timers

\* C26: the delayed stop leaves the mode as it is unless the mode is still
\* MOVING_C2_TO_PALM when the callback runs; it sets READY only from there.
DelayedStopKeepsOtherModes ==
    [][TimerStep =>
          IF mode(mem) = "MOVING_C2_TO_PALM"
          THEN mode(mem') = "READY"
          ELSE mode(mem') = mode(mem)]_vars

----------------------------------------------------------------------------
(* Motors and modes *)

Motor3Modes == {"MOVING_C3_TO_C2", "MOVING_BOTH"}

Motor2Modes == {"MOVING_C3_TO_C2", "MOVING_BOTH", "MOVING_C2_TO_PALM"}

\* C27: after every scan MOTOR_3 is on only in MOVING_C3_TO_C2 or
\* MOVING_BOTH and MOTOR_2 is on only in MOVING_C3_TO_C2, MOVING_BOTH or
\* MOVING_C2_TO_PALM; in every other mode both motors are off.  Writes
\* succeed in SpecMove.
MotorsFollowMode ==
    [][ScanStep =>
          /\ coils'["MOTOR_3"] => mode(mem') \in Motor3Modes
          /\ coils'["MOTOR_2"] => mode(mem') \in Motor2Modes]_vars

----------------------------------------------------------------------------
(* Entering READY *)

\* C28: the System Ready Check rule triggers only in a scan that brings the
\* mode from unset, MANUAL or ERROR_SAFETY to READY, in which Auto_Select and
\* E_Stop read true and each of M1_Trip, M2_Trip and DHLM_Trip_Signal has
\* read true in every sample of the preceding HOLD_SECONDS; the scan
\* commands both motors off.
ReadyNeedsHeldTrips ==
    [][ScanStep /\ Triggered(active_rules', "System Ready Check")
       => /\ \E old_mode \in {"None", "MANUAL", "ERROR_SAFETY"} :
                 EnteredFrom(new_events', old_mode, "READY")
          /\ Truthy(input_data', "Auto_Select") /\ Truthy(input_data', "E_Stop")
          /\ \A l \in TripLabels : SampledFor(input_logs', l, TRUE, HOLD_SECONDS)
          /\ MotorsCommandedOff(writes')]_vars

----------------------------------------------------------------------------
(* Move C3 -> C2 *)

\* the time at which the latest scan read its inputs
ScanTime(logs) == logs[Len(logs)].timestamp

\* the write of value to coil c comes in wr, and FirstWrite is its place
Written(wr, c, value) == \E i \in 1..Len(wr) : wr[i] = <<c, value>>

FirstWrite(wr, c, value) == CHOOSE i \in 1..Len(wr) :
    wr[i] = <<c, value>> /\ \A j \in 1..(i - 1) : wr[j] # <<c, value>>

StartTarget(m) == get(m, "C3toC2_StartTime")

\* C29: a scan that starts in READY and reads S2 true and S1 false ends in
\* MOVING_C3_TO_C2 with C3toC2_StartTime C3_DELAY after the scan; a scan
\* that ends in MOVING_C3_TO_C2 with the start time pending switches no
\* motor on; Start Moving C3->C2 After Delay triggers only in a scan at or
\* after a start time set by an earlier scan, it triggers in such a scan
\* that starts in MOVING_C3_TO_C2, it switches MOTOR_2 on and then, the scan
\* MOTOR_STAGGER later, MOTOR_3, and it clears the start time, which only
\* Initiate Move C3->C2 sets again.
TimedStartC3toC2 ==
    [][ScanStep =>
         /\ mode(mem) = "READY" /\ Truthy(input_data', "S2") /\ ~Truthy(input_data', "S1")
            => /\ Triggered(active_rules', "Initiate Move C3->C2")
               /\ mode(mem') = "MOVING_C3_TO_C2"
               /\ StartTarget(mem') = ScanTime(input_logs') + C3_DELAY
         /\ mode(mem') = "MOVING_C3_TO_C2" /\ StartTarget(mem') # NoTime
            => ~Written(writes', "MOTOR_2", TRUE) /\ ~Written(writes', "MOTOR_3", TRUE)
         /\ mode(mem) = "MOVING_C3_TO_C2" /\ StartTarget(mem) # NoTime
                /\ ScanTime(input_logs') >= StartTarget(mem)
            => Triggered(active_rules', "Start Moving C3->C2 After Delay")
         /\ Triggered(active_rules', "Start Moving C3->C2 After Delay")
            => /\ StartTarget(mem) # NoTime
               /\ ScanTime(input_logs') >= StartTarget(mem)
               /\ Written(writes', "MOTOR_2", TRUE) /\ Written(writes', "MOTOR_3", TRUE)
               /\ FirstWrite(writes', "MOTOR_2", TRUE) < FirstWrite(writes', "MOTOR_3", TRUE)
               /\ now' >= ScanTime(input_logs') + MOTOR_STAGGER
               /\ StartTarget(mem') = NoTime
         /\ StartTarget(mem') # NoTime /\ StartTarget(mem') # StartTarget(mem)
            => Triggered(active_rules', "Initiate Move C3->C2")]_vars

\* the motors of a C3 -> C2 move were started, MOTOR_2 first, at the start
\* time set C3_DELAY earlier, and the move goes on
TimedStartC3toC2_Witness ==
    /\ mode(mem) = "MOVING_C3_TO_C2"
    /\ Triggered(active_rules, "Start Moving C3->C2 After Delay")
    /\ StartTarget(mem) = NoTime
    /\ coils["MOTOR_2"] /\ coils["MOTOR_3"]
    /\ now >= C3_DELAY + MOTOR_STAGGER
    /\ FirstWrite(writes, "MOTOR_2", TRUE) < FirstWrite(writes, "MOTOR_3", TRUE)

----------------------------------------------------------------------------
(* Move completion *)

\* a scan that starts in MOVING_C3_TO_C2 and reads S2 false
ArrivedOnC2 == ScanStep /\ mode(mem) = "MOVING_C3_TO_C2" /\ ~Truthy(input_data', "S2")

\* a scan that starts in MOVING_BOTH and reads S1 true and S2 false
BothArrived ==
    /\ ScanStep /\ mode(mem) = "MOVING_BOTH"
    /\ Truthy(input_data', "S1") /\ ~Truthy(input_data', "S2")

\* a rule of the scan started the next move
NextMoveStarted(names) ==
    Triggered(names, "Initiate Move C2->PALM") \/ Triggered(names, "Initiate Move Both")

----------------------------------------------------------------------------
(* Move both *)

Motor3Target(m) == get(m, "Motor3_StartTime")

\* the times at which a rule of the latest scan can have run: the scan
\* time, or MOTOR_STAGGER later when an earlier rule of the scan slept
RuleTimes(logs) == {ScanTime(logs), ScanTime(logs) + MOTOR_STAGGER}

\* C31: a scan in which Initiate Move Both triggers writes MOTOR_2 on and,
\* C3_Timer being set, sets Motor3_StartTime to
\* t + max(0, C3_DELAY - (t - C3_Timer)) for the time t of the rule, with
\* Motor3_Delay in 0..C3_DELAY (the motor starting in the same scan when
\* the delay is 0); a scan that ends in MOVING_BOTH and switches MOTOR_3
\* from off to on triggers Start Moving Motor 3 After Delay, at or after a
\* Motor3_StartTime set by an earlier scan or, set in the same scan, with
\* C3_Timer at least C3_DELAY old.
Motor3WaitsForBin ==
    [][ScanStep =>
         /\ Triggered(active_rules', "Initiate Move Both")
            => /\ Written(writes', "MOTOR_2", TRUE)
               /\ get(mem', "C3_Timer") # NoTime
               /\ IF Triggered(active_rules', "Start Moving Motor 3 After Delay")
                  THEN \E t \in RuleTimes(input_logs') : t - get(mem', "C3_Timer") >= C3_DELAY
                  ELSE /\ \E t \in RuleTimes(input_logs') :
                              Motor3Target(mem') =
                                  t + Max(0, C3_DELAY - (t - get(mem', "C3_Timer")))
                       /\ get(mem', "Motor3_Delay") \in 0..C3_DELAY
                       /\ Motor3Target(mem') >= get(mem', "C3_Timer") + C3_DELAY
         /\ mode(mem') = "MOVING_BOTH" /\ coils'["MOTOR_3"] /\ ~coils["MOTOR_3"]
            => /\ Triggered(active_rules', "Start Moving Motor 3 After Delay")
               /\ IF Triggered(active_rules', "Initiate Move Both")
                  THEN now' >= get(mem', "C3_Timer") + C3_DELAY
                  ELSE /\ Motor3Target(mem) # NoTime
                       /\ ScanTime(input_logs') >= Motor3Target(mem)]_vars

\* MOTOR_3 was started in MOVING_BOTH by a scan later than the one that
\* started the move with a delay left
Motor3WaitsForBin_Witness ==
    /\ mode(mem) = "MOVING_BOTH"
    /\ Triggered(active_rules, "Start Moving Motor 3 After Delay")
    /\ ~Triggered(active_rules, "Initiate Move Both")
    /\ coils["MOTOR_2"] /\ coils["MOTOR_3"]
    /\ get(mem, "C3_Timer") # NoTime
    /\ now >= get(mem, "C3_Timer") + C3_DELAY + MOTOR_STAGGER

----------------------------------------------------------------------------
(* Move C2 -> PALM: the delayed stop *)

\* Complete Move C2->PALM has announced the stop of MOTOR_2 and no callback
\* has run since
StopAnnounced(keys) ==
    OnceKey("INFO", "MOVING_C2_TO_PALM - MOTOR_2 will stop in 1 seconds.") \in keys

\* C33: at most one callback of the delayed stop is pending, a scan with
\* one pending schedules no other, and no callback runs in a move for which
\* Complete Move C2->PALM has not announced the stop.
OneStopPerMove ==
    [][/\ Cardinality(timers') <= 1
       /\ ScanStep /\ timers # {} => timers' \subseteq timers
       /\ TimerStep /\ mode(mem) \in MovingModes => StopAnnounced(once)]_vars

\* C32: the mode goes from MOVING_C2_TO_PALM to READY only by the callback
\* of the delayed stop, in a move whose completion was announced, S2 having
\* read true STOP_DELAY or longer before; the step leaves MOTOR_2 off.
DelayedStopEndsMove ==
    [][mode(mem) = "MOVING_C2_TO_PALM" /\ mode(mem') = "READY"
       => /\ TimerStep
          /\ ~coils'["MOTOR_2"]
          /\ StopAnnounced(once)
          /\ \E i \in 1..Len(input_logs) :
                 /\ input_logs[i].timestamp <= now' - STOP_DELAY
                 /\ Truthy(input_logs[i].data, "S2")]_vars

----------------------------------------------------------------------------
(* Hold completeness *)

\* the latest sample of logs taken at or before t, 0 when there is none
LatestAtOrBefore(logs, t) ==
    LET older == {i \in 1..Len(logs) : logs[i].timestamp <= t}
    IN IF older = {} THEN 0 ELSE CHOOSE i \in older : \A j \in older : j <= i

\* C34: whenever the input history has a sample taken at or before
\* now - hold, and the label has the value in every sample from the latest
\* such sample up to the newest, the hold query is true.
HoldCompleteness ==
    \A l \in InputLabels, v \in BOOLEAN, h \in HoldWindows :
        LET first == LatestAtOrBefore(input_logs, now - h)
        IN (first > 0 /\ \A i \in first..Len(input_logs) : Is(input_logs[i].data, l, v))
               => extended_hold(input_logs, now, l, v, h)

----------------------------------------------------------------------------
(* The comms query *)

\* the heartbeat of an output entry, 0 when the entry has none
Version(entry) == IF "VERSION" \in DOMAIN entry.data THEN entry.data["VERSION"] ELSE 0

\* C35: an answer of check_comms_health(T) is true when the output history
\* is empty, false when the newest entry is older than now - T, and
\* otherwise true iff some entry with timestamp >= now - T has a heartbeat
\* different from 0, an entry without VERSION counting as 0.
CommsHealthAnswer ==
    api_call.op = "check_comms_health" =>
        LET T == api_call.timeout_seconds
            n == Len(output_logs)
        IN IF n = 0 THEN api_call.ret = TRUE
           ELSE IF output_logs[n].timestamp < now - T THEN api_call.ret = FALSE
           ELSE api_call.ret =
                    (\E i \in 1..n : /\ output_logs[i].timestamp >= now - T
                                     /\ Version(output_logs[i]) # 0)

\* the query is true on an entry of the window with a heartbeat, the newest
\* entry having no VERSION and an entry older than the window having none
CommsHealthAnswer_Witness ==
    /\ api_call.op = "check_comms_health"
    /\ api_call.ret = TRUE
    /\ Len(output_logs) >= 3
    /\ "VERSION" \notin DOMAIN output_logs[Len(output_logs)].data
    /\ output_logs[1].timestamp < now - api_call.timeout_seconds
    /\ output_logs[Len(output_logs)].timestamp < now

----------------------------------------------------------------------------
(* Failed writes *)

StoppedModes == {"ERROR_COMMS", "ERROR_ESTOP", "ERROR_SAFETY", "MANUAL"}

\* C36: a scan that starts and ends in the same one of the modes
\* ERROR_COMMS, ERROR_ESTOP, ERROR_SAFETY and MANUAL with a motor still on
\* (the write that should have switched it off failed) writes that motor
\* off again.
MotorOffIsRetried ==
    [][ScanStep /\ mode(mem) \in StoppedModes /\ mode(mem') = mode(mem)
       => \A m \in {"MOTOR_2", "MOTOR_3"} : coils[m] => Written(writes', m, FALSE)]_vars

----------------------------------------------------------------------------
(* Writes in ERROR_COMMS *)

\* C37: a scan that starts and ends in ERROR_COMMS reads the inputs and
\* evaluates the rules (the comms rule is triggered) and writes no output
\* coil.
NoWritesInErrorComms ==
    [][ScanStep /\ mode(mem) = "ERROR_COMMS" /\ mode(mem') = "ERROR_COMMS"
       => /\ Triggered(active_rules', "Comms Health Monitor")
          /\ writes' = <<>>]_vars

----------------------------------------------------------------------------
(* The comms lamp *)

\* the coil LED_GREEN of a mock terminal, False until it is written
LedCoil(client) ==
    LET address == get_address("OUTPUT", "LED_GREEN", "None")[1]
    IN IF address \in DOMAIN client.coils THEN client.coils[address] ELSE BoolValue(FALSE)

----------------------------------------------------------------------------
(* The C3 timer *)

\* the scan read S1 with this value
S1Read(d, value) == "S1" \in DOMAIN d /\ d["S1"] = value

----------------------------------------------------------------------------
(* Stopping the polling thread *)

\* C40: once the stop event is set the polling thread begins no tick, its
\* wait between ticks returns without another slice of the timeout passing,
\* and the thread ends.
CooperativeStop ==
    /\ [][stop_event /\ pc'.poll = "tick" => pc.poll = "tick"]_vars
    /\ [][stop_event /\ pc.poll = "wait"
            => pc'.poll = "read" /\ sleep_time' = sleep_time]_vars
    /\ stop_event ~> pc.poll = "stopped"

\* the thread has ended after a scan, with part of its last wait unspent
CooperativeStop_Witness ==
    /\ stop_event
    /\ pc.poll = "stopped"
    /\ sleep_time > 0
    /\ Len(input_logs) > 0

====
